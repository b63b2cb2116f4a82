--------------------------- MODULE CoordinatorProofs ---------------------------
(***************************************************************************)
(* Three of the coordinator's properties for any number of commands and    *)
(* whatever is planned.                                                    *)
(*                                                                         *)
(* That a poll never goes back rests on what the client guarantees: while  *)
(* a poll reads, no command is between its request and its publication.    *)
(* What is published meanwhile comes from pushes, which the revisions      *)
(* reveal; and what was published before is no newer than the purifier.    *)
(***************************************************************************)
EXTENDS Coordinator, TLAPS

Stamped == [is : {"on", "off", "set", "none", "unknown"}, at : Nat]
Revisions == [count : Nat, power : Nat, mode : Nat, light : Nat]
Observed == {"power", "lamp", "color"}     \* by polls
Group(f) == IF f = "power" THEN "power" ELSE "light"

IsPoll(p) == p = [stage |-> p.stage, background |-> p.background, since |-> p.since,
                  got |-> p.got]
JobFields == {"stage", "request", "since", "exchanges", "todo", "got", "before",
              "light", "confirmed"}
IsJob(j) == j = [f \in JobFields |-> j[f]]
IsJobs(jobs) == jobs = [c \in Commands |-> jobs[c]] /\ \A c \in Commands : IsJob(jobs[c])

\* The records have their fields, the values their time.
Shapes ==
    /\ plan \in Plans
    /\ clock \in Nat
    /\ device \in [Fields -> Stamped] /\ data \in [Fields -> Stamped]
    /\ lastMode \in Stamped
    /\ push \in Revisions
    /\ push.power <= push.count /\ push.light <= push.count
    /\ modePushes \in Seq(Stamped)
    /\ IsPoll(poll)
    /\ IsJobs(job)

\* Nobody knows anything that is newer than the purifier.
DeviceIsNewest ==
    /\ \A f \in Fields : device[f].at <= clock
    /\ \A f \in Observed : data[f].at <= device[f].at

\* Likewise a command, which has the answers that it publishes.
CommandIsNoNewer(c) ==
    LET j == job[c] IN
    /\ \A f \in DOMAIN j.got \cap Fields :
          j.got[f] \in Stamped /\ j.got[f].at <= device[f].at
    /\ j.before \in Stamped /\ j.before.at <= device.power.at
    /\ j.light \in [Lights -> Stamped]
    /\ \A f \in Lights : j.light[f].at <= device[f].at
    /\ j.stage \in {"queued", "waiting", "exchange"} => j.request \in Requests
    /\ j.request \in Requests /\ j.request.kind = "power" =>
         /\ j.stage = "waiting" => j.exchanges = << <<"power">> >>
         /\ j.stage = "exchange" => \/ j.todo = <<"power">>
                                    \/ j.todo = <<>> /\ "power" \in DOMAIN j.got

\* The client does not read while it commands, and what a poll has read is
\* older than what is published only if a push came since.
PollIsNewer ==
    /\ poll.since.power \in Nat /\ poll.since.power <= push.power
    /\ poll.since.light \in Nat /\ poll.since.light <= push.light
    /\ poll.stage \in Reading \cup {"cancelled"} =>
         \A c \in Commands : job[c].stage # "exchange"
    /\ poll.stage \in {"core", "light"} =>
         /\ "power" \in DOMAIN poll.got
         /\ \A f \in DOMAIN poll.got \cap Observed :
              /\ poll.got[f] \in Stamped /\ poll.got[f].at <= device[f].at
              /\ \/ poll.got[f].at >= data[f].at
                 \/ push[Group(f)] > poll.since[Group(f)]

\* No push is applied once push updates are disabled.
DisabledIsQuiet ==
    /\ shutdown # "open" => ~pushEnabled
    /\ ~pushEnabled => modePushes = <<>>

IInv ==
    /\ Shapes
    /\ DeviceIsNewest
    /\ \A c \in Commands : CommandIsNoNewer(c)
    /\ PollIsNewer
    /\ DisabledIsQuiet
    /\ ModeRemembered

\* What a poll does to poll and refresh, with everything else as it was.
LEMMA PollStepsKeepInv ==
    ASSUME IInv, UNCHANGED beyondPolls,
           IsPoll(poll'), PollIsNewer'
    PROVE  IInv'
<1>1. /\ UNCHANGED <<plan, device, clock, changes, data, lastMode, pushed,
                   confirmed>>
      /\ UNCHANGED <<commandRevision, publishedRevision, queue, job>>
      /\ UNCHANGED <<push, pushEnabled, modePushes, shutdown>>
  BY DEF beyondPolls, purifierVars, stateVars, commandVars, pushVars
<1>2. Shapes' /\ DeviceIsNewest'
  BY <1>1 DEF IInv, Shapes, DeviceIsNewest
<1>3. \A c \in Commands : CommandIsNoNewer(c)'
  BY <1>1 DEF IInv, CommandIsNoNewer
<1>4. DisabledIsQuiet' /\ ModeRemembered'
  BY <1>1 DEF IInv, DisabledIsQuiet, ModeRemembered
<1>5. QED BY <1>2, <1>3, <1>4 DEF IInv

LEMMA NewPoll ==
    ASSUME IInv, UNCHANGED beyondPolls, NEW b \in BOOLEAN, BeginPoll(b)
    PROVE  IInv'
<1>1. /\ poll' = [stage |-> "waiting", background |-> b,
                  since |-> Snapshot(commandRevision, {"power", "light"}),
                  got |-> [f \in {} |-> Unknown]]
      /\ push' = push
  BY DEF BeginPoll, NoPoll, beyondPolls, pushVars
<1>2. poll'.since.power = push.power /\ poll'.since.light = push.light
  BY <1>1 DEF Snapshot
<1>3. PollIsNewer'
  BY <1>1, <1>2 DEF IInv, Shapes, Revisions, PollIsNewer, Reading
<1>4. QED BY <1>1, <1>3, PollStepsKeepInv DEF IsPoll

LEMMA NoPollKeeps ==
    ASSUME IInv, UNCHANGED beyondPolls, poll' = NoPoll
    PROVE  IInv'
<1>1. poll' = [stage |-> "none", background |-> FALSE, since |-> NoSnapshot,
               got |-> [f \in {} |-> Unknown]]
      /\ push' = push
  BY DEF NoPoll, beyondPolls, pushVars
<1>2. PollIsNewer'
  BY <1>1 DEF IInv, Shapes, Revisions, PollIsNewer, Reading, NoSnapshot
<1>3. QED BY <1>1, <1>2, PollStepsKeepInv DEF IsPoll

LEMMA PollReading ==
    ASSUME IInv,
           \/ PollBegins \/ PollReadsCore \/ PollReplayed
           \/ \E fields \in (SUBSET Lights) \ {{}} : PollReadsLight(fields)
    PROVE  IInv'
<1>1. /\ UNCHANGED beyondPolls
      /\ push' = push /\ data' = data /\ job' = job /\ device' = device
  BY DEF PollBegins, PollReadsCore, PollReplayed, PollReadsLight, beyondPolls, pushVars,
         stateVars, commandVars, purifierVars
<1>2. IsPoll(poll)
  BY DEF IInv, Shapes
<1>3. CASE PollBegins
  <2>1. /\ poll' = [stage |-> "reading", background |-> poll.background,
                    since |-> poll.since, got |-> poll.got]
        /\ \A c \in Commands : job[c].stage # "exchange"
    BY <1>2, <1>3 DEF PollBegins, ClientFree, IsPoll
  <2>2. PollIsNewer'
    BY <2>1, <1>1 DEF IInv, PollIsNewer, Reading
  <2>3. QED BY <1>1, <2>1, <2>2, PollStepsKeepInv DEF IsPoll
<1>4. CASE PollReplayed
  <2>1. poll' = [stage |-> "waiting", background |-> poll.background,
                 since |-> poll.since, got |-> NoPoll.got]
    BY <1>2, <1>4 DEF PollReplayed, IsPoll
  <2>2. PollIsNewer'
    BY <2>1, <1>1 DEF IInv, PollIsNewer, Reading
  <2>3. QED BY <1>1, <2>1, <2>2, PollStepsKeepInv DEF IsPoll
<1>5. CASE PollReadsCore
  <2>1. /\ poll.stage = "reading"
        /\ poll' = [stage |-> "core", background |-> poll.background,
                    since |-> poll.since, got |-> [f \in {"power"} |-> device[f]]]
    BY <1>2, <1>5 DEF PollReadsCore, IsPoll
  <2>2. device.power \in Stamped /\ data.power \in Stamped
        /\ device.power.at >= data.power.at /\ device.power.at <= device.power.at
    BY DEF IInv, Shapes, DeviceIsNewest, Observed, Fields, Stamped
  <2>3. PollIsNewer'
    BY <2>1, <2>2, <1>1 DEF IInv, PollIsNewer, Reading
  <2>4. QED BY <1>1, <2>1, <2>3, PollStepsKeepInv DEF IsPoll
<1>6. CASE \E fields \in (SUBSET Lights) \ {{}} : PollReadsLight(fields)
  <2>1. PICK fields \in (SUBSET Lights) \ {{}} : PollReadsLight(fields)
    BY <1>6
  <2>2. /\ poll.stage = "core"
        /\ poll' = [stage |-> "light", background |-> poll.background,
                    since |-> poll.since,
                    got |-> [f \in {"power"} \cup fields |->
                               IF f = "power" THEN poll.got[f] ELSE device[f]]]
    BY <1>2, <2>1 DEF PollReadsLight, IsPoll
  <2>3. \A f \in fields : /\ device[f] \in Stamped /\ device[f].at >= data[f].at
                          /\ device[f].at <= device[f].at /\ f # "power"
    BY <2>1 DEF IInv, Shapes, DeviceIsNewest, Observed, Fields, Lights, Stamped
  <2>4. /\ poll.got["power"] \in Stamped /\ poll.got["power"].at <= device["power"].at
        /\ \/ poll.got["power"].at >= data["power"].at
           \/ push[Group("power")] > poll.since[Group("power")]
    BY <2>2 DEF IInv, PollIsNewer, Observed
  <2>5. /\ poll'.stage = "light" /\ poll'.since = poll.since
        /\ poll'.got = [f \in {"power"} \cup fields |->
                         IF f = "power" THEN poll.got[f] ELSE device[f]]
    BY <2>2
  <2>6. /\ "power" \in DOMAIN poll'.got
        /\ \A f \in DOMAIN poll'.got \cap Observed :
              /\ poll'.got[f] \in Stamped /\ poll'.got[f].at <= device[f].at
              /\ \/ poll'.got[f].at >= data[f].at
                 \/ push[Group(f)] > poll.since[Group(f)]
    BY <2>3, <2>4, <2>5
  <2>7. PollIsNewer'
    BY <2>2, <2>5, <2>6, <1>1 DEF IInv, PollIsNewer, Reading
  <2>8. QED BY <1>1, <2>2, <2>7, PollStepsKeepInv DEF IsPoll
<1>7. QED BY <1>3, <1>4, <1>5, <1>6

\* What is not done by a poll leaves a poll that reads what it found, or cancels it.
LEMMA PollBeside ==
    ASSUME IInv, push' = push,
           poll' \in {poll, PollAfterCancel},
           \A d \in Commands : \/ job'[d].stage # "exchange"
                               \/ job[d].stage = "exchange"
                               \/ poll.stage \notin Reading \cup {"cancelled"},
           poll.stage \in Reading => data' = data /\ device' = device
    PROVE  IsPoll(poll') /\ PollIsNewer'
<1>1. CASE poll' = poll
  BY <1>1 DEF IInv, Shapes, PollIsNewer, IsPoll, Reading
<1>2. CASE poll' = NoPoll
  <2>1. poll' = [stage |-> "none", background |-> FALSE, since |-> NoSnapshot,
                 got |-> [f \in {} |-> Unknown]]
    BY <1>2 DEF NoPoll
  <2>2. QED BY <2>1 DEF IInv, Shapes, Revisions, PollIsNewer, IsPoll, Reading, NoSnapshot
<1>3. CASE poll.stage \in Reading /\ poll' = [NoPoll EXCEPT !.stage = "cancelled"]
  <2>1. poll' = [stage |-> "cancelled", background |-> FALSE, since |-> NoSnapshot,
                 got |-> [f \in {} |-> Unknown]]
    BY <1>3 DEF NoPoll
  <2>2. \A d \in Commands : job'[d].stage # "exchange"
    BY <1>3 DEF IInv, PollIsNewer, Reading
  <2>3. QED BY <2>1, <2>2 DEF IInv, Shapes, Revisions, PollIsNewer, IsPoll, Reading, NoSnapshot
<1>4. QED BY <1>1, <1>2, <1>3 DEF PollAfterCancel

LEMMA PollBesideCommand ==
    ASSUME IInv, push' = push,
           NEW c \in Commands, \A d \in Commands : d # c => job'[d] = job[d],
           poll' \in {poll, PollAfterCancel},
           job'[c].stage = "exchange" => poll.stage \notin Reading \cup {"cancelled"},
           poll.stage \in Reading => data' = data /\ device' = device
    PROVE  IsPoll(poll') /\ PollIsNewer'
BY PollBeside

\* What a command does, with everything else as it was.
LEMMA CommandStepsKeepInv ==
    ASSUME IInv, UNCHANGED <<plan, pushVars, shutdown>>,
           NEW c \in Commands, IsJobs(job'),
           \A d \in Commands : d # c => job'[d] = job[d],
           CommandIsNoNewer(c)',
           clock' \in Nat, device' \in [Fields -> Stamped],
           \A f \in Fields : device[f].at <= device'[f].at /\ device'[f].at <= clock',
           data' \in [Fields -> Stamped],
           \A f \in Observed : data'[f].at <= device'[f].at,
           lastMode' \in Stamped, data'.mode = lastMode',
           IsPoll(poll'), PollIsNewer'
    PROVE  IInv'
<1>1. Shapes'
  BY DEF IInv, Shapes, pushVars
<1>2. DeviceIsNewest'
  BY DEF DeviceIsNewest
<1>3. ASSUME NEW d \in Commands, d # c
      PROVE  CommandIsNoNewer(d)'
  <2>1. job'[d] = job[d]
    BY <1>3
  <2>2. \A f \in Fields : \A v \in Stamped :
          v.at <= device[f].at => v.at <= device'[f].at
    BY DEF IInv, Shapes, Stamped
  <2>3. CommandIsNoNewer(d) /\ "power" \in Fields /\ Lights \subseteq Fields
    BY DEF IInv, Fields, Lights
  <2>4. \A f \in DOMAIN job[d].got \cap Fields :
          job[d].got[f] \in Stamped /\ job[d].got[f].at <= device'[f].at
    BY <2>2, <2>3 DEF CommandIsNoNewer
  <2>5. job[d].before \in Stamped /\ job[d].before.at <= device'.power.at
    BY <2>2, <2>3 DEF CommandIsNoNewer
  <2>6. /\ job[d].light \in [Lights -> Stamped]
        /\ \A f \in Lights : job[d].light[f].at <= device'[f].at
    BY <2>2, <2>3 DEF CommandIsNoNewer
  <2>7. QED BY <2>1, <2>3, <2>4, <2>5, <2>6 DEF CommandIsNoNewer
<1>4. DisabledIsQuiet' /\ ModeRemembered'
  BY DEF IInv, DisabledIsQuiet, ModeRemembered, pushVars
<1>5. QED BY <1>1, <1>2, <1>3, <1>4 DEF IInv

\* Values that a command may hold when it begins.
LEMMA PublishedIsNoNewer ==
    ASSUME IInv
    PROVE  /\ \A f \in Fields : /\ device[f] \in Stamped /\ data[f] \in Stamped
                                 /\ device[f].at \in Nat /\ data[f].at \in Nat
                                 /\ device[f].at <= device[f].at
                                 /\ device[f].at <= clock
           /\ \A f \in Observed : data[f].at <= device[f].at
           /\ Observed = {"power"} \cup Lights
           /\ Observed \subseteq Fields
BY DEF IInv, Shapes, DeviceIsNewest, Stamped, Observed, Lights, Fields

LEMMA CallKeepsInv ==
    ASSUME IInv, NEW c \in Commands, NEW r \in plan.asks[c], Call(c, r)
    PROVE  IInv'
<1>1. /\ UNCHANGED <<plan, device, clock, data, lastMode, pushVars, shutdown>>
      /\ push' = push /\ poll' = PollAfterCancel
  BY DEF Call, purifierVars, stateVars, pushVars
<1>2. /\ IsJobs(job') /\ \A d \in Commands : d # c => job'[d] = job[d]
      /\ job'[c].stage = "queued" /\ job'[c].request = r
      /\ job'[c].got = [f \in {} |-> Unknown] /\ job'[c].before = Unknown
      /\ job'[c].light = [f \in Lights |-> Unknown]
  <2>1. IsJobs(job)
    BY DEF IInv, Shapes
  <2>2. /\ IsJobs(job') /\ \A d \in Commands : d # c => job'[d] = job[d]
    BY <2>1 DEF IsJobs, IsJob, JobFields, Call, NoJob
  <2>3. /\ job'[c].stage = "queued" /\ job'[c].request = r
        /\ job'[c].got = [f \in {} |-> Unknown] /\ job'[c].before = Unknown
        /\ job'[c].light = [f \in Lights |-> Unknown]
    BY <2>1 DEF IsJobs, IsJob, JobFields, Call, NoJob
  <2>4. QED BY <2>2, <2>3
<1>3. IsPoll(poll') /\ PollIsNewer'
  BY <1>1, <1>2, PollBesideCommand
<1>4. r \in Requests
  <2>1. plan \in Plans
    BY DEF IInv, Shapes
  <2>2. plan.asks \in [Commands -> SUBSET Requests]
    BY <2>1, CoordinatorAssumption
  <2>3. QED BY <2>2
<1>5. Unknown \in Stamped /\ Unknown.at = 0
  BY DEF Unknown, Value, Stamped
<1>6. device.power.at >= 0 /\ \A f \in Lights : device[f].at >= 0
  BY PublishedIsNoNewer DEF Fields, Lights
<1>7. CommandIsNoNewer(c)'
  BY <1>1, <1>2, <1>4, <1>5, <1>6 DEF CommandIsNoNewer
<1>8. QED
  BY <1>1, <1>2, <1>3, <1>7, PublishedIsNoNewer, CommandStepsKeepInv
     DEF IInv, Shapes, ModeRemembered

LEMMA DecideKeepsInv ==
    ASSUME IInv, NEW c \in Commands, Decide(c)
    PROVE  IInv'
<1>1. /\ UNCHANGED <<plan, device, clock, data, lastMode, pushVars, shutdown>>
      /\ push' = push /\ poll' = poll
  BY DEF Decide, beyondCommands, stateVars, pushVars, pollVars
<1>2. /\ IsJobs(job') /\ \A d \in Commands : d # c => job'[d] = job[d]
      /\ job[c].stage = "queued" /\ job'[c].stage = "waiting"
      /\ job'[c].request = job[c].request /\ job'[c].got = job[c].got
      /\ job'[c].exchanges = Exchanges(job[c].request)
      /\ job'[c].before = data.power
      /\ job'[c].light = [f \in Lights |-> data[f]]
  <2>1. IsJobs(job)
    BY DEF IInv, Shapes
  <2>2. /\ IsJobs(job') /\ \A d \in Commands : d # c => job'[d] = job[d]
    BY <2>1 DEF IsJobs, IsJob, JobFields, Decide
  <2>3. /\ job[c].stage = "queued" /\ job'[c].stage = "waiting"
        /\ job'[c].request = job[c].request /\ job'[c].got = job[c].got
        /\ job'[c].exchanges = Exchanges(job[c].request)
        /\ job'[c].before = data.power
        /\ job'[c].light = [f \in Lights |-> data[f]]
    BY <2>1 DEF IsJobs, IsJob, JobFields, Decide
  <2>4. QED BY <2>2, <2>3
<1>3. IsPoll(poll') /\ PollIsNewer'
  BY <1>1, <1>2, PollBesideCommand
<1>4. job[c].request.kind = "power" => job'[c].exchanges = << <<"power">> >>
  BY <1>2 DEF Exchanges
<1>5. /\ data.power \in Stamped /\ data.power.at <= device.power.at
      /\ \A f \in Lights : data[f] \in Stamped /\ data[f].at <= device[f].at
  BY PublishedIsNoNewer DEF Fields, Lights
<1>6. CommandIsNoNewer(c)
  BY DEF IInv
<1>7. CommandIsNoNewer(c)'
  BY <1>1, <1>2, <1>4, <1>5, <1>6 DEF CommandIsNoNewer
<1>8. QED
  BY <1>1, <1>2, <1>3, <1>7, PublishedIsNoNewer, CommandStepsKeepInv
     DEF IInv, Shapes, ModeRemembered

LEMMA ExchangeBeginsKeepsInv ==
    ASSUME IInv, NEW c \in Commands, ExchangeBegins(c)
    PROVE  IInv'
<1>1. /\ UNCHANGED <<plan, device, clock, data, lastMode, pushVars, shutdown>>
      /\ push' = push /\ poll' = poll
      /\ poll.stage \notin Reading \cup {"cancelled"}
  BY DEF ExchangeBegins, ClientFree, beyondCommands, stateVars, pushVars, pollVars
<1>2. /\ IsJobs(job') /\ \A d \in Commands : d # c => job'[d] = job[d]
      /\ job[c].stage = "waiting" /\ job'[c].stage = "exchange"
      /\ job'[c].request = job[c].request /\ job'[c].got = job[c].got
      /\ job'[c].todo = Head(job[c].exchanges)
      /\ job'[c].before = job[c].before /\ job'[c].light = job[c].light
  <2>1. IsJobs(job)
    BY DEF IInv, Shapes
  <2>2. /\ IsJobs(job') /\ \A d \in Commands : d # c => job'[d] = job[d]
    BY <2>1 DEF IsJobs, IsJob, JobFields, ExchangeBegins
  <2>3. /\ job[c].stage = "waiting" /\ job'[c].stage = "exchange"
        /\ job'[c].request = job[c].request /\ job'[c].got = job[c].got
        /\ job'[c].todo = Head(job[c].exchanges)
        /\ job'[c].before = job[c].before /\ job'[c].light = job[c].light
    BY <2>1 DEF IsJobs, IsJob, JobFields, ExchangeBegins
  <2>4. QED BY <2>2, <2>3
<1>3. IsPoll(poll') /\ PollIsNewer'
  BY <1>1, <1>2, PollBesideCommand
<1>4. job[c].exchanges = << <<"power">> >> => job'[c].todo = <<"power">>
  BY <1>2
<1>5. CommandIsNoNewer(c)
  BY DEF IInv
<1>6. CommandIsNoNewer(c)'
  BY <1>1, <1>2, <1>4, <1>5 DEF CommandIsNoNewer
<1>7. QED
  BY <1>1, <1>2, <1>3, <1>6, PublishedIsNoNewer, CommandStepsKeepInv
     DEF IInv, Shapes, ModeRemembered

LEMMA TailOfOne == ASSUME NEW x PROVE Tail(<<x>>) = <<>>
OBVIOUS

LEMMA ExecutesKeepsInv ==
    ASSUME IInv, NEW c \in Commands, Executes(c)
    PROVE  IInv'
<1> DEFINE request == Head(job[c].todo)
           g == IF request = "brightness" THEN "lamp" ELSE request
           is == CASE request = "power" -> IF job[c].request.kind = "mode" THEN "on"
                                           ELSE job[c].request.is
                   [] request = "lamp" -> job[c].request.is
                   [] request = "brightness" -> device.lamp.is
                   [] OTHER -> "set"
           value == Value(is, clock + 1)
<1>1. /\ UNCHANGED <<plan, data, lastMode, pushVars, shutdown>>
      /\ push' = push /\ poll' = poll
      /\ clock' = clock + 1 /\ device' = [device EXCEPT ![g] = value]
  BY DEF Executes, beyondCommands, stateVars, pushVars, pollVars
<1>2. /\ IsJobs(job') /\ \A d \in Commands : d # c => job'[d] = job[d]
      /\ job[c].stage = "exchange" /\ job'[c].stage = "exchange"
      /\ job[c].todo # <<>> /\ job'[c].todo = Tail(job[c].todo)
      /\ job'[c].got = [f \in DOMAIN job[c].got \cup {g} |->
                          IF f = g THEN value ELSE job[c].got[f]]
      /\ job'[c].request = job[c].request
      /\ job'[c].before = job[c].before /\ job'[c].light = job[c].light
  <2>1. IsJobs(job)
    BY DEF IInv, Shapes
  <2>2. IsJobs(job') /\ \A d \in Commands : d # c => job'[d] = job[d]
    BY <2>1 DEF IsJobs, IsJob, JobFields, Executes
  <2>3. /\ job'[c].stage = job[c].stage /\ job'[c].request = job[c].request
        /\ job'[c].before = job[c].before /\ job'[c].light = job[c].light
    <3> DEFINE todo == Tail(job[c].todo)
               got == [f \in DOMAIN job[c].got \cup {g} |->
                         IF f = g THEN value ELSE job[c].got[f]]
    <3>1. job' = [job EXCEPT ![c].todo = todo, ![c].got = got]
      BY <2>1 DEF Executes
    <3> HIDE DEF todo, got
    <3>2. QED BY <2>1, <3>1 DEF IsJobs, IsJob, JobFields
  <2>4. job'[c].got = [f \in DOMAIN job[c].got \cup {g} |->
                          IF f = g THEN value ELSE job[c].got[f]]
    BY <2>1 DEF IsJobs, IsJob, JobFields, Executes
  <2>5. job'[c].todo = Tail(job[c].todo)
    BY <2>1 DEF IsJobs, IsJob, JobFields, Executes
  <2>6. job[c].stage = "exchange" /\ job[c].todo # <<>>
    BY DEF Executes
  <2>7. QED BY <2>2, <2>3, <2>4, <2>5, <2>6
<1>3. CommandIsNoNewer(c) /\ job[c].request \in Requests
  BY <1>2 DEF IInv, CommandIsNoNewer
<1>4. value \in Stamped /\ value.at = clock + 1
  <2>1. is \in {"on", "off", "set", "none", "unknown"}
    BY <1>3, PublishedIsNoNewer DEF Requests, Stamped, Fields
  <2>2. clock \in Nat
    BY DEF IInv, Shapes
  <2>3. QED BY <2>1, <2>2 DEF Value, Stamped
<1>5. poll.stage \notin Reading \cup {"cancelled"}
  BY <1>2 DEF IInv, PollIsNewer
<1>6. IsPoll(poll') /\ PollIsNewer'
  BY <1>1, <1>2, <1>5, PollBesideCommand
<1> HIDE DEF value, g
<1>7. \A f \in Fields : /\ device'[f] = IF f = g THEN value ELSE device[f]
                        /\ device[f].at <= device'[f].at /\ device'[f].at <= clock'
                        /\ device[f].at \in Nat
                        /\ \A n \in Nat : n <= device[f].at => n <= device'[f].at
  BY <1>1, <1>4, PublishedIsNoNewer DEF IInv, Shapes
<1>8. /\ clock' \in Nat /\ device' \in [Fields -> Stamped]
      /\ value.at <= value.at
  <2>1. clock \in Nat /\ device \in [Fields -> Stamped]
    BY DEF IInv, Shapes
  <2>2. clock' \in Nat /\ value.at <= value.at
    BY <1>1, <1>4, <2>1
  <2>3. device' \in [Fields -> Stamped]
    BY <1>1, <1>4, <2>1
  <2>4. QED BY <2>2, <2>3
<1>9. CommandIsNoNewer(c)'
  <2>1. \A f \in DOMAIN job'[c].got \cap Fields :
          job'[c].got[f] \in Stamped /\ job'[c].got[f].at <= device'[f].at
    <3> TAKE f \in DOMAIN job'[c].got \cap Fields
    <3>1. CASE f = g
      BY <3>1, <1>2, <1>4, <1>7, <1>8
    <3>2. CASE f # g
      BY <3>2, <1>2, <1>3, <1>7 DEF CommandIsNoNewer, Stamped
    <3>3. QED BY <3>1, <3>2
  <2>2. /\ job[c].before \in Stamped /\ job[c].before.at <= device'.power.at
        /\ job[c].light \in [Lights -> Stamped]
        /\ \A f \in Lights : job[c].light[f].at <= device'[f].at
    <3>1. "power" \in Fields /\ Lights \subseteq Fields
      BY DEF Fields, Lights
    <3>2. \A v \in Stamped : v.at \in Nat
      BY DEF Stamped
    <3>3. job[c].before \in Stamped /\ job[c].before.at <= device'.power.at
      BY <3>1, <3>2, <1>3, <1>7 DEF CommandIsNoNewer
    <3>4. job[c].light \in [Lights -> Stamped]
      BY <1>3 DEF CommandIsNoNewer
    <3>5. \A f \in Lights : job[c].light[f].at <= device'[f].at
      BY <3>1, <3>2, <3>4, <1>3, <1>7 DEF CommandIsNoNewer
    <3>6. QED BY <3>3, <3>4, <3>5
  <2>3. job[c].request.kind = "power" =>
          job'[c].todo = <<>> /\ "power" \in DOMAIN job'[c].got
    <3>1. job[c].request.kind = "power" => job[c].todo = <<"power">>
      BY <1>2, <1>3 DEF CommandIsNoNewer
    <3>2. job[c].request.kind = "power" => g = "power"
      BY <3>1 DEF g
    <3>3. job[c].request.kind = "power" => Tail(job[c].todo) = <<>>
      BY <3>1, TailOfOne
    <3>4. QED BY <3>2, <3>3, <1>2
  <2>4. QED BY <2>1, <2>2, <2>3, <1>2, <1>3 DEF CommandIsNoNewer
<1>10. data' \in [Fields -> Stamped] /\ \A f \in Observed : data'[f].at <= device'[f].at
  BY <1>1, <1>7, PublishedIsNoNewer DEF IInv, Shapes, Observed, Fields
<1>11. lastMode' \in Stamped /\ data'.mode = lastMode'
  BY <1>1 DEF IInv, Shapes, ModeRemembered
<1>12. QED
  BY <1>1, <1>2, <1>6, <1>7, <1>8, <1>9, <1>10, <1>11, CommandStepsKeepInv

\* A command that is over holds nothing.
LEMMA NothingAfterCommand ==
    ASSUME IInv, NEW c \in Commands, CommandOver(c), device' = device
    PROVE  /\ IsJobs(job') /\ \A d \in Commands : d # c => job'[d] = job[d]
           /\ job'[c].stage = "done"
           /\ CommandIsNoNewer(c)'
<1>1. IsJobs(job)
  BY DEF IInv, Shapes
<1>2. IsJobs(job') /\ \A d \in Commands : d # c => job'[d] = job[d]
  BY <1>1 DEF IsJobs, IsJob, JobFields, CommandOver, NoJob
<1>3. /\ job'[c].stage = "done" /\ job'[c].got = [f \in {} |-> Unknown]
      /\ job'[c].before = Unknown /\ job'[c].light = [f \in Lights |-> Unknown]
  BY <1>1 DEF IsJobs, IsJob, JobFields, CommandOver, NoJob
<1>4. Unknown \in Stamped /\ Unknown.at = 0
  BY DEF Unknown, Value, Stamped
<1>5. device.power.at >= 0 /\ \A f \in Lights : device[f].at >= 0
  BY PublishedIsNoNewer DEF Fields, Lights
<1>6. CommandIsNoNewer(c)'
  BY <1>3, <1>4, <1>5 DEF CommandIsNoNewer
<1>7. QED BY <1>2, <1>3, <1>6

LEMMA CommandFailsKeepsInv ==
    ASSUME IInv, NEW c \in Commands, CommandFails(c)
    PROVE  IInv'
<1>1. /\ UNCHANGED <<plan, device, clock, data, lastMode, pushVars, shutdown>>
      /\ push' = push /\ CommandOver(c)
      /\ poll' \in {poll, PollAfterCancel}
  BY DEF CommandFails, ScheduleRefresh, purifierVars, stateVars, pushVars
<1>2. /\ IsJobs(job') /\ \A d \in Commands : d # c => job'[d] = job[d]
      /\ job'[c].stage = "done" /\ CommandIsNoNewer(c)'
  BY <1>1, NothingAfterCommand
<1>3. IsPoll(poll') /\ PollIsNewer'
  BY <1>1, <1>2, PollBesideCommand
<1>4. QED
  BY <1>1, <1>2, <1>3, PublishedIsNoNewer, CommandStepsKeepInv
     DEF IInv, Shapes, ModeRemembered

\* While a command has the client no poll reads.
LEMMA NoPollDuringExchange ==
    ASSUME IInv, NEW c \in Commands, job[c].stage = "exchange"
    PROVE  poll.stage \notin Reading \cup {"cancelled"}
BY DEF IInv, PollIsNewer

\* The confirmation that ends a command.
LEMMA ConfirmedCommandKeepsInv ==
    ASSUME IInv, NEW c \in Commands, Confirmed(c), CommandOver(c), ScheduleRefresh,
           UNCHANGED <<beyondCommands, device, clock>>,
           data' \in [Fields -> Stamped], lastMode' \in Stamped,
           data'.mode = lastMode',
           \A f \in Observed : data'[f].at <= device[f].at
    PROVE  IInv'
<1>1. /\ UNCHANGED <<plan, device, clock, pushVars, shutdown>> /\ push' = push
      /\ poll' \in {poll, PollAfterCancel}
  BY DEF ScheduleRefresh, beyondCommands, pushVars
<1>2. /\ IsJobs(job') /\ \A d \in Commands : d # c => job'[d] = job[d]
      /\ job'[c].stage = "done" /\ CommandIsNoNewer(c)'
  BY <1>1, NothingAfterCommand
<1>3. poll.stage \notin Reading
  BY NoPollDuringExchange DEF Confirmed
<1>4. IsPoll(poll') /\ PollIsNewer'
  BY <1>1, <1>2, <1>3, PollBesideCommand
<1>5. clock' \in Nat /\ device' \in [Fields -> Stamped]
  BY <1>1 DEF IInv, Shapes
<1>6. QED
  BY <1>1, <1>2, <1>4, <1>5, PublishedIsNoNewer, CommandStepsKeepInv

LEMMA PowerConfirmedKeepsInv ==
    ASSUME IInv, NEW c \in Commands, PowerConfirmed(c)
    PROVE  IInv'
<1> DEFINE power == IF Since(c, "power") THEN data.power ELSE job[c].got.power
<1>1. /\ data' = [data EXCEPT !.power = power, !.mode = WithoutMode(power, data.mode)]
      /\ lastMode' = WithoutMode(power, lastMode)
  BY DEF PowerConfirmed
<1>2. power \in Stamped /\ power.at <= device.power.at
  <2>1. CommandIsNoNewer(c)
    BY DEF IInv
  <2>2. /\ job[c].stage = "exchange" /\ job[c].todo = <<>>
        /\ job[c].request.kind = "power"
    BY DEF PowerConfirmed, Confirmed
  <2>3. "power" \in DOMAIN job[c].got
    BY <2>1, <2>2 DEF CommandIsNoNewer
  <2>4. job[c].got["power"] \in Stamped /\ job[c].got["power"].at <= device.power.at
    BY <2>1, <2>3 DEF CommandIsNoNewer, Fields
  <2>5. QED BY <2>4, PublishedIsNoNewer DEF Observed, Fields
<1> HIDE DEF power
<1>3. WithoutMode(power, data.mode) \in Stamped
  BY <1>2, PublishedIsNoNewer DEF WithoutMode, Off, Value, Stamped, Fields
<1>4. lastMode' \in Stamped /\ data'.mode = lastMode'
  BY <1>1, <1>3, PublishedIsNoNewer DEF IInv, Shapes, ModeRemembered, Fields
<1>5. data' \in [Fields -> Stamped] /\ \A f \in Observed : data'[f].at <= device[f].at
  BY <1>1, <1>2, <1>3, PublishedIsNoNewer DEF IInv, Shapes, Fields, Observed
<1>6. /\ Confirmed(c) /\ CommandOver(c) /\ ScheduleRefresh
      /\ UNCHANGED <<beyondCommands, device, clock>>
  BY DEF PowerConfirmed
<1>7. QED BY <1>4, <1>5, <1>6, ConfirmedCommandKeepsInv

LEMMA ModeConfirmedKeepsInv ==
    ASSUME IInv, NEW c \in Commands, ModeConfirmed(c)
    PROVE  IInv'
<1> DEFINE got == job[c].got
           power == IF Since(c, "power") THEN data.power
                    ELSE IF "power" \in DOMAIN got THEN got.power ELSE job[c].before
           mode == IF "mode" \in {f \in DOMAIN got : ~Since(c, f)} THEN got.mode
                   ELSE data.mode
<1>1. data' = [data EXCEPT !.power = power, !.mode = mode] /\ lastMode' = mode
  BY DEF ModeConfirmed
<1>2. CommandIsNoNewer(c) /\ "power" \in Fields /\ "mode" \in Fields
  BY DEF IInv, Fields
<1>3. power \in Stamped /\ power.at <= device.power.at
  <2>1. "power" \in DOMAIN got =>
          got["power"] \in Stamped /\ got["power"].at <= device["power"].at
    BY <1>2 DEF CommandIsNoNewer
  <2>2. job[c].before \in Stamped /\ job[c].before.at <= device.power.at
    BY <1>2 DEF CommandIsNoNewer
  <2>3. QED BY <2>1, <2>2, PublishedIsNoNewer DEF Observed, Fields
<1>4. mode \in Stamped
  <2>1. "mode" \in DOMAIN got => got["mode"] \in Stamped
    BY <1>2 DEF CommandIsNoNewer
  <2>2. QED BY <2>1, <1>2, PublishedIsNoNewer
<1> HIDE DEF power, mode
<1>5. lastMode' \in Stamped /\ data'.mode = lastMode'
  BY <1>1, <1>2, <1>4 DEF IInv, Shapes
<1>6. data' \in [Fields -> Stamped] /\ \A f \in Observed : data'[f].at <= device[f].at
  BY <1>1, <1>3, <1>4, PublishedIsNoNewer DEF IInv, Shapes, Fields, Observed
<1>7. /\ Confirmed(c) /\ CommandOver(c) /\ ScheduleRefresh
      /\ UNCHANGED <<beyondCommands, device, clock>>
  BY DEF ModeConfirmed
<1>8. QED BY <1>5, <1>6, <1>7, ConfirmedCommandKeepsInv

LEMMA LightConfirmedKeepsInv ==
    ASSUME IInv, NEW c \in Commands, LightConfirmed(c)
    PROVE  IInv'
<1> DEFINE got == job[c].got
           light == [f \in Lights |-> IF f \in DOMAIN got THEN got[f]
                                                         ELSE job[c].light[f]]
           overtaken == Since(c, "light")
<1>1. data' = IF overtaken THEN data
              ELSE [f \in Fields |-> IF f \in Lights THEN light[f] ELSE data[f]]
  BY DEF LightConfirmed
<1>2. CommandIsNoNewer(c) /\ Lights \subseteq Fields /\ "mode" \notin Lights
  BY DEF IInv, Fields, Lights
<1>3. \A f \in Lights : light[f] \in Stamped /\ light[f].at <= device[f].at
  BY <1>2 DEF CommandIsNoNewer
<1>4. \A f \in Fields : data[f] \in Stamped
  BY PublishedIsNoNewer
<1>5. \A f \in Observed : data[f].at <= device[f].at
  BY PublishedIsNoNewer
<1> HIDE DEF light, overtaken
<1>6. data' \in [Fields -> Stamped] /\ \A f \in Observed : data'[f].at <= device[f].at
  <2>1. CASE overtaken
    BY <2>1, <1>1, <1>5 DEF IInv, Shapes
  <2>2. CASE ~overtaken
    BY <2>2, <1>1, <1>3, <1>4, <1>5, PublishedIsNoNewer
  <2>3. QED BY <2>1, <2>2
<1>7. data'.mode = data.mode
  BY <1>1, <1>2 DEF Fields
<1>8. /\ lastMode' \in Stamped /\ data'.mode = lastMode'
      /\ UNCHANGED <<beyondCommands, device, clock>> /\ Confirmed(c)
  BY <1>7 DEF LightConfirmed, purifierVars, beyondCommands, IInv, Shapes, ModeRemembered
<1>9. CASE CommandOver(c) /\ ScheduleRefresh
  BY <1>6, <1>8, <1>9, ConfirmedCommandKeepsInv
<1>10. CASE /\ job' = [job EXCEPT ![c].stage = "waiting", ![c].got = NoJob.got,
                         ![c].confirmed = TRUE,
                         ![c].light = IF overtaken THEN [f \in Lights |-> data[f]]
                                                   ELSE light]
            /\ UNCHANGED <<queue, poll, refresh>>
  <2> DEFINE newLight == IF overtaken THEN [f \in Lights |-> data[f]] ELSE light
             newGot == NoJob.got
  <2>1. IsJobs(job)
    BY DEF IInv, Shapes
  <2>2. newLight \in [Lights -> Stamped] /\ \A f \in Lights : newLight[f].at <= device[f].at
    <3>1. light = [f \in Lights |-> light[f]]
      BY DEF light
    <3>2. Lights \subseteq Observed
      BY PublishedIsNoNewer
    <3>3. QED BY <3>1, <3>2, <1>2, <1>3, <1>4, <1>5
  <2>3. newGot = [f \in {} |-> Unknown]
    BY DEF NoJob
  <2>4. job' = [job EXCEPT ![c].stage = "waiting", ![c].got = newGot,
                           ![c].confirmed = TRUE, ![c].light = newLight]
    BY <1>10
  <2> HIDE DEF newLight, newGot
  <2>5. IsJobs(job') /\ \A d \in Commands : d # c => job'[d] = job[d]
    BY <2>1, <2>4 DEF IsJobs, IsJob, JobFields
  <2>6. /\ job'[c].stage = "waiting" /\ job'[c].got = newGot /\ job'[c].light = newLight
        /\ job'[c].request = job[c].request /\ job'[c].before = job[c].before
    BY <2>1, <2>4 DEF IsJobs, IsJob, JobFields
  <2>7. job[c].stage = "exchange" /\ job[c].request.kind = "light"
    BY DEF LightConfirmed, Confirmed
  <2>8. /\ UNCHANGED <<plan, device, clock, pushVars, shutdown>> /\ push' = push
        /\ poll' = poll
    BY <1>8, <1>10 DEF beyondCommands, pushVars
  <2>9. CommandIsNoNewer(c)'
    BY <1>2, <2>2, <2>3, <2>6, <2>7, <2>8 DEF CommandIsNoNewer
  <2>10. IsPoll(poll') /\ PollIsNewer'
    BY <2>5, <2>6, <2>7, <2>8, PollBesideCommand, NoPollDuringExchange
  <2>11. clock' \in Nat /\ device' \in [Fields -> Stamped]
    BY <2>8 DEF IInv, Shapes
  <2>12. QED
    BY <1>6, <1>8, <2>5, <2>8, <2>9, <2>10, <2>11, PublishedIsNoNewer,
       CommandStepsKeepInv
<1>11. QED BY <1>9, <1>10 DEF LightConfirmed, overtaken, light

\* What the purifier and its pushes do, with everything else as it was.
LEMMA PushStepsKeepInv ==
    ASSUME IInv, UNCHANGED <<plan, job, poll>>,
           clock' \in Nat, device' \in [Fields -> Stamped],
           \A f \in Fields : device[f].at <= device'[f].at /\ device'[f].at <= clock',
           data' \in [Fields -> Stamped],
           \A f \in Observed : data'[f].at <= device'[f].at,
           lastMode' \in Stamped, data'.mode = lastMode',
           push' \in Revisions,
           push'.power <= push'.count, push'.light <= push'.count,
           push.power <= push'.power, push.light <= push'.light,
           \A f \in Observed : \/ data'[f] = data[f]
                               \/ push'[Group(f)] > push[Group(f)],
           modePushes' \in Seq(Stamped), DisabledIsQuiet'
    PROVE  IInv'
<1>1. Shapes' /\ DeviceIsNewest' /\ ModeRemembered'
  BY DEF IInv, Shapes, DeviceIsNewest, ModeRemembered
<1>2. \A f \in Fields : \A v \in Stamped :
        v.at <= device[f].at => v.at <= device'[f].at
  BY PublishedIsNoNewer DEF Stamped
<1>3. "power" \in Fields /\ Lights \subseteq Fields /\ Observed \subseteq Fields
  BY DEF Fields, Lights, Observed
<1>4. ASSUME NEW c \in Commands
      PROVE  CommandIsNoNewer(c)'
  <2>1. CommandIsNoNewer(c)
    BY DEF IInv
  <2>2. \A f \in DOMAIN job[c].got \cap Fields :
          job[c].got[f] \in Stamped /\ job[c].got[f].at <= device'[f].at
    BY <1>2, <2>1 DEF CommandIsNoNewer
  <2>3. job[c].before \in Stamped /\ job[c].before.at <= device'.power.at
    BY <1>2, <1>3, <2>1 DEF CommandIsNoNewer
  <2>4. /\ job[c].light \in [Lights -> Stamped]
        /\ \A f \in Lights : job[c].light[f].at <= device'[f].at
    BY <1>2, <1>3, <2>1 DEF CommandIsNoNewer
  <2>5. QED BY <2>1, <2>2, <2>3, <2>4 DEF CommandIsNoNewer
<1>5. PollIsNewer'
  <2>1. /\ poll.since.power \in Nat /\ poll.since.power <= push'.power
        /\ poll.since.light \in Nat /\ poll.since.light <= push'.light
    <3>1. push \in Revisions /\ PollIsNewer
      BY DEF IInv, Shapes
    <3>2. QED BY <3>1 DEF PollIsNewer, Revisions
  <2>2. \A f \in Observed : /\ Group(f) \in {"power", "light"}
                            /\ push[Group(f)] \in Nat /\ push'[Group(f)] \in Nat
                            /\ push[Group(f)] <= push'[Group(f)]
                            /\ poll.since[Group(f)] \in Nat
                            /\ poll.since[Group(f)] <= push[Group(f)]
    <3>1. push \in Revisions /\ PollIsNewer
      BY DEF IInv, Shapes
    <3>2. QED BY <3>1 DEF PollIsNewer, Revisions, Group, Observed
  <2>3. ASSUME poll.stage \in {"core", "light"},
               NEW f \in DOMAIN poll.got \cap Observed
        PROVE  /\ poll.got[f] \in Stamped /\ poll.got[f].at <= device'[f].at
               /\ \/ poll.got[f].at >= data'[f].at
                  \/ push'[Group(f)] > poll.since[Group(f)]
    <3>1. /\ poll.got[f] \in Stamped /\ poll.got[f].at <= device[f].at
          /\ \/ poll.got[f].at >= data[f].at
             \/ push[Group(f)] > poll.since[Group(f)]
      BY <2>3 DEF IInv, PollIsNewer
    <3>2. poll.got[f].at <= device'[f].at
      BY <3>1, <1>2, <1>3
    <3>3. CASE data'[f] = data[f]
      BY <3>1, <3>2, <3>3, <2>2
    <3>4. CASE push'[Group(f)] > push[Group(f)]
      BY <3>1, <3>2, <3>4, <2>2
    <3>5. QED BY <3>3, <3>4
  <2>4. QED BY <2>1, <2>3 DEF IInv, PollIsNewer
<1>6. QED BY <1>1, <1>4, <1>5 DEF IInv

LEMMA PushCounted ==
    ASSUME NEW p \in Revisions, p.power <= p.count, p.light <= p.count,
           NEW g \in {"power", "mode", "light"}, NEW q,
           q = [p EXCEPT !.count = p.count + 1, ![g] = p.count + 1]
    PROVE  /\ q \in Revisions /\ q.power <= q.count /\ q.light <= q.count
           /\ p.power <= q.power /\ p.light <= q.light
           /\ g = "power" => q.power > p.power
           /\ g = "light" => q.light > p.light
<1> DEFINE n == p.count + 1
<1>1. n \in Nat /\ n > p.power /\ n > p.light
  BY DEF Revisions
<1>2. q = [p EXCEPT !.count = n, ![g] = n]
  OBVIOUS
<1> HIDE DEF n
<1>3. q \in Revisions
  BY <1>1, <1>2 DEF Revisions
<1>4. /\ q.count = n /\ q.power = (IF g = "power" THEN n ELSE p.power)
      /\ q.light = (IF g = "light" THEN n ELSE p.light)
  BY <1>2 DEF Revisions
<1>5. p.power \in Nat /\ p.light \in Nat
  BY DEF Revisions
<1>6. QED BY <1>1, <1>3, <1>4, <1>5

LEMMA AppliedPushKeepsInv ==
    ASSUME IInv, UNCHANGED <<plan, job, poll>>,
           clock' \in Nat, device' \in [Fields -> Stamped],
           \A f \in Fields : device[f].at <= device'[f].at /\ device'[f].at <= clock',
           NEW g \in {"power", "mode", "lamp"}, NEW value \in Stamped,
           ApplyPush(g, value), g \in Observed => value.at <= device'[g].at,
           modePushes' \in Seq(Stamped), DisabledIsQuiet'
    PROVE  IInv'
<1>1. \A f \in Observed : data[f].at <= device'[f].at
  BY PublishedIsNoNewer DEF Stamped
<1>2. push \in Revisions
      /\ push.power <= push.count /\ push.light <= push.count
  BY DEF IInv, Shapes
<1>3. data \in [Fields -> Stamped] /\ lastMode \in Stamped /\ data.mode = lastMode
  BY DEF IInv, Shapes, ModeRemembered
<1>4. CASE g = "power"
  <2>1. /\ push' = [push EXCEPT !.count = push.count + 1, !.power = push.count + 1]
        /\ data' = [data EXCEPT !.power = value, !.mode = WithoutMode(value, data.mode)]
        /\ lastMode' = WithoutMode(value, lastMode)
    BY <1>4 DEF ApplyPush, Remembered
  <2>2. WithoutMode(value, lastMode) \in Stamped
    BY <1>3 DEF WithoutMode, Off, Value, Stamped
  <2>3. /\ data' \in [Fields -> Stamped] /\ lastMode' \in Stamped
        /\ data'.mode = lastMode'
        /\ \A f \in Observed : data'[f].at <= device'[f].at
    BY <2>1, <2>2, <1>1, <1>3, <1>4 DEF Fields, Observed
  <2>4. /\ push' \in Revisions
        /\ push'.power <= push'.count /\ push'.light <= push'.count
        /\ push.power <= push'.power /\ push.light <= push'.light
        /\ push'.power > push.power
    BY <2>1, <1>2, PushCounted
  <2>5. \A f \in Observed : \/ data'[f] = data[f]
                            \/ push'[Group(f)] > push[Group(f)]
    BY <2>1, <2>4, <1>3 DEF Observed, Group, Fields
  <2>6. QED BY <2>3, <2>4, <2>5, PushStepsKeepInv
<1>5. CASE g = "mode"
  <2>1. /\ push' = [push EXCEPT !.count = push.count + 1, !.mode = push.count + 1]
        /\ data' = [data EXCEPT !.mode = value]
        /\ lastMode' = value
    BY <1>5 DEF ApplyPush
  <2>2. /\ data' \in [Fields -> Stamped] /\ lastMode' \in Stamped
        /\ data'.mode = lastMode'
        /\ \A f \in Observed : data'[f] = data[f]
    BY <2>1, <1>3 DEF Fields, Observed
  <2>3. /\ push' \in Revisions
        /\ push'.power <= push'.count /\ push'.light <= push'.count
        /\ push.power <= push'.power /\ push.light <= push'.light
    BY <2>1, <1>2, PushCounted
  <2>4. QED BY <2>2, <2>3, <1>1, PushStepsKeepInv
<1>6. CASE g = "lamp"
  <2>1. /\ push' = [push EXCEPT !.count = push.count + 1, !.light = push.count + 1]
        /\ data' = [data EXCEPT !.lamp = value]
        /\ lastMode' = lastMode
    BY <1>6 DEF ApplyPush
  <2>2. /\ data' \in [Fields -> Stamped] /\ lastMode' \in Stamped
        /\ data'.mode = lastMode'
        /\ \A f \in Observed : data'[f].at <= device'[f].at
    BY <2>1, <1>1, <1>3, <1>6 DEF Fields, Observed
  <2>3. /\ push' \in Revisions
        /\ push'.power <= push'.count /\ push'.light <= push'.count
        /\ push.power <= push'.power /\ push.light <= push'.light
        /\ push'.light > push.light
    BY <2>1, <1>2, PushCounted
  <2>4. \A f \in Observed : \/ data'[f] = data[f]
                            \/ push'[Group(f)] > push[Group(f)]
    BY <2>1, <2>3, <1>3 DEF Observed, Group, Fields
  <2>5. QED BY <2>2, <2>3, <2>4, PushStepsKeepInv
<1>7. QED BY <1>4, <1>5, <1>6

LEMMA ChangeKeepsInv ==
    ASSUME IInv, NEW f \in Fields, Change(f)
    PROVE  IInv'
<1> DEFINE is == CASE device[f].is = "on" -> "off" [] device[f].is = "off" -> "on"
                   [] OTHER -> "set"
           value == Value(is, clock + 1)
<1>1. /\ UNCHANGED <<plan, job, poll, pushEnabled, shutdown>>
      /\ clock' = clock + 1 /\ device' = [device EXCEPT ![f] = value]
  BY DEF Change, commandVars, pollVars
<1>2. value \in Stamped /\ value.at = clock + 1 /\ clock \in Nat
  <2>1. clock \in Nat
    BY DEF IInv, Shapes
  <2>2. QED BY <2>1 DEF Value, Stamped
<1>3. \/ UNCHANGED <<push, modePushes, stateVars>>
      \/ pushEnabled /\ f # "color" /\ Pushed(f, value)
  BY DEF Change
<1> HIDE DEF value
<1>4. clock' \in Nat /\ device' \in [Fields -> Stamped] /\ value.at <= value.at
  BY <1>1, <1>2 DEF IInv, Shapes
<1>5. /\ device'[f] = value
      /\ \A g \in Fields : device[g].at <= device'[g].at /\ device'[g].at <= clock'
  BY <1>1, <1>2, PublishedIsNoNewer DEF IInv, Shapes
<1>6. CASE UNCHANGED <<push, modePushes, stateVars>>
  <2>1. UNCHANGED <<push, modePushes, data, lastMode>>
    BY <1>6 DEF stateVars
  <2>2. \A g \in Observed : data'[g].at <= device'[g].at
    BY <1>4, <1>5, <2>1, PublishedIsNoNewer DEF Stamped
  <2>3. /\ data' \in [Fields -> Stamped] /\ lastMode' \in Stamped
        /\ data'.mode = lastMode' /\ modePushes' \in Seq(Stamped)
    BY <2>1 DEF IInv, Shapes, ModeRemembered
  <2>4. push \in Revisions /\ push.power <= push.count /\ push.light <= push.count
    BY DEF IInv, Shapes
  <2>5. /\ push' \in Revisions /\ push'.power <= push'.count /\ push'.light <= push'.count
        /\ push.power <= push'.power /\ push.light <= push'.light
    BY <2>1, <2>4 DEF Revisions
  <2>6. DisabledIsQuiet'
    BY <1>1, <2>1 DEF IInv, DisabledIsQuiet
  <2>7. QED
    BY <1>1, <1>4, <1>5, <2>1, <2>2, <2>3, <2>5, <2>6, PushStepsKeepInv
<1>7. CASE pushEnabled /\ f # "color" /\ Pushed(f, value)
  <2>1. DisabledIsQuiet'
    BY <1>1, <1>7 DEF IInv, DisabledIsQuiet
  <2>2. CASE f = "mode"
    <3>1. modePushes' = Append(modePushes, value) /\ UNCHANGED <<push, data, lastMode>>
      BY <1>7, <2>2 DEF Pushed, stateVars
    <3>2. modePushes' \in Seq(Stamped)
      BY <3>1, <1>2 DEF IInv, Shapes
    <3>3. \A g \in Observed : data'[g].at <= device'[g].at
      BY <1>4, <1>5, <3>1, PublishedIsNoNewer DEF Stamped
    <3>4. /\ data' \in [Fields -> Stamped] /\ lastMode' \in Stamped
          /\ data'.mode = lastMode'
      BY <3>1 DEF IInv, Shapes, ModeRemembered
    <3>5. push \in Revisions /\ push.power <= push.count /\ push.light <= push.count
      BY DEF IInv, Shapes
    <3>6. /\ push' \in Revisions /\ push'.power <= push'.count
          /\ push'.light <= push'.count
          /\ push.power <= push'.power /\ push.light <= push'.light
      BY <3>1, <3>5 DEF Revisions
    <3>7. QED
      BY <1>1, <1>4, <1>5, <2>1, <3>1, <3>2, <3>3, <3>4, <3>6, PushStepsKeepInv
  <2>3. CASE f # "mode"
    <3>1. ApplyPush(f, value) /\ modePushes' = modePushes /\ f \in {"power", "mode", "lamp"}
      BY <1>7, <2>3 DEF Pushed, Fields
    <3>2. modePushes' \in Seq(Stamped)
      BY <3>1 DEF IInv, Shapes
    <3>3. value.at <= device'[f].at
      BY <1>4, <1>5
    <3>4. QED
      BY <1>1, <1>2, <1>4, <1>5, <2>1, <3>1, <3>2, <3>3, AppliedPushKeepsInv
  <2>4. QED BY <2>2, <2>3
<1>8. QED BY <1>3, <1>6, <1>7

LEMMA ModePushAppliesKeepsInv ==
    ASSUME IInv, ModePushApplies
    PROVE  IInv'
<1>1. /\ UNCHANGED <<plan, job, poll, pushEnabled, shutdown, clock, device>>
      /\ modePushes # <<>> /\ modePushes' = Tail(modePushes)
      /\ ApplyPush("mode", Head(modePushes))
  BY DEF ModePushApplies, purifierVars, commandVars, pollVars
<1>2. modePushes \in Seq(Stamped)
  BY DEF IInv, Shapes
<1>3. Head(modePushes) \in Stamped /\ modePushes' \in Seq(Stamped)
  BY <1>1, <1>2
<1>4. clock' \in Nat /\ device' \in [Fields -> Stamped]
  BY <1>1 DEF IInv, Shapes
<1>5. \A g \in Fields : device[g].at <= device'[g].at /\ device'[g].at <= clock'
  BY <1>1, PublishedIsNoNewer
<1>6. DisabledIsQuiet' /\ "mode" \notin Observed
  BY <1>1 DEF IInv, DisabledIsQuiet, Observed
<1>7. QED
  BY <1>1, <1>3, <1>4, <1>5, <1>6, AppliedPushKeepsInv

LEMMA PollEndsKeepsInv ==
    ASSUME IInv, PollEnds
    PROVE  IInv'
<1>1. /\ UNCHANGED <<plan, device, clock, lastMode, push, pushEnabled, modePushes>>
      /\ UNCHANGED <<job, shutdown>>
      /\ poll' = NoPoll /\ poll.stage \in {"core", "light"}
  BY DEF PollEnds, PollOver, purifierVars, pushVars, commandVars
<1>2. /\ data' = [f \in Fields |-> data'[f]] /\ data'["mode"] = lastMode
      /\ \A f \in Observed : \/ data'[f] = data[f]
                             \/ data'[f] = poll.got[f] /\ f \in DOMAIN poll.got
  <2>1. "power" \in DOMAIN poll.got
    BY <1>1 DEF IInv, PollIsNewer
  <2>2. data' = [f \in Fields |-> data'[f]] /\ data'["mode"] = lastMode
    BY DEF PollEnds, Fields
  <2>3. QED BY <2>1, <2>2 DEF PollEnds, Fields, Observed
<1>3. \A f \in Observed : data'[f] \in Stamped /\ data'[f].at <= device[f].at
  BY <1>1, <1>2, PublishedIsNoNewer DEF IInv, PollIsNewer
<1>4. lastMode \in Stamped /\ Fields = Observed \cup {"mode"}
  BY DEF IInv, Shapes, Fields, Observed
<1>5. data' \in [Fields -> Stamped]
  BY <1>2, <1>3, <1>4
<1>6. poll' = [stage |-> "none", background |-> FALSE, since |-> NoSnapshot,
               got |-> [f \in {} |-> Unknown]]
  BY <1>1 DEF NoPoll
<1>7. Shapes' /\ DeviceIsNewest'
  BY <1>1, <1>3, <1>5, <1>6 DEF IInv, Shapes, DeviceIsNewest, IsPoll
<1>8. \A c \in Commands : CommandIsNoNewer(c)'
  BY <1>1 DEF IInv, CommandIsNoNewer
<1>9. PollIsNewer'
  BY <1>1, <1>6 DEF IInv, Shapes, Revisions, PollIsNewer, Reading, NoSnapshot
<1>10. DisabledIsQuiet' /\ ModeRemembered'
  BY <1>1, <1>2 DEF IInv, DisabledIsQuiet, ModeRemembered
<1>11. QED BY <1>7, <1>8, <1>9, <1>10 DEF IInv

LEMMA UnloadKeepsInv ==
    ASSUME IInv, DisablePush \/ Shutdown
    PROVE  IInv'
<1>1. /\ UNCHANGED <<plan, device, clock, data, lastMode, push, job>>
      /\ poll' \in {poll, PollAfterCancel}
  BY DEF DisablePush, Shutdown, purifierVars, stateVars, commandVars, pushVars, pollVars
<1>2. IsPoll(poll') /\ PollIsNewer'
  BY <1>1, PollBeside
<1>3. DisabledIsQuiet' /\ modePushes' \in Seq(Stamped)
  <2>1. CASE DisablePush
    BY <2>1 DEF DisablePush, DisabledIsQuiet
  <2>2. CASE Shutdown
    BY <2>2 DEF Shutdown, pushVars, IInv, Shapes, DisabledIsQuiet
  <2>3. QED BY <2>1, <2>2
<1>4. Shapes' /\ DeviceIsNewest' /\ ModeRemembered'
  BY <1>1, <1>2, <1>3 DEF IInv, Shapes, DeviceIsNewest, ModeRemembered
<1>5. \A c \in Commands : CommandIsNoNewer(c)'
  BY <1>1 DEF IInv, CommandIsNoNewer
<1>6. QED BY <1>2, <1>3, <1>4, <1>5 DEF IInv

LEMMA InitInv == Init => IInv
<1> SUFFICES ASSUME Init PROVE IInv
  OBVIOUS
<1>1. PICK p \in {"on", "off"} :
         device = [f \in Fields |-> CASE f = "power" -> Value(p, 0)
                                      [] f = "lamp" -> Value("off", 0)
                                      [] OTHER -> Value("set", 0)]
  BY DEF Init
<1>2. \A i \in {"on", "off", "set", "none", "unknown"} :
        Value(i, 0) \in Stamped /\ Value(i, 0).at = 0
  BY DEF Value, Stamped
<1>3. device \in [Fields -> Stamped] /\ \A f \in Fields : device[f].at = 0
  BY <1>1, <1>2
<1>4. data = [f \in Fields |-> CASE f = "power" -> device.power
                                 [] f = "mode" -> Off(device.power)
                                 [] OTHER -> Unknown]
  BY DEF Init
<1>5. /\ device.power \in Stamped /\ device.power.at = 0
      /\ Off(device.power) \in Stamped /\ Unknown \in Stamped
      /\ Unknown.at = 0
  BY <1>2, <1>3 DEF Off, Unknown, Fields
<1>6. /\ data \in [Fields -> Stamped] /\ \A f \in Observed : data[f].at = 0
      /\ data.mode = Off(device.power)
  BY <1>4, <1>5 DEF Fields, Observed
<1>7. poll = [stage |-> "none", background |-> FALSE, since |-> NoSnapshot,
              got |-> [f \in {} |-> Unknown]]
  BY DEF Init, NoPoll
<1>8. /\ IsJobs(job) /\ \A c \in Commands : job[c] = NoJob
  BY DEF Init, NoJob, IsJobs, IsJob, JobFields
<1>9. /\ push.count = 0 /\ push.power = 0 /\ push.light = 0 /\ push \in Revisions
  BY DEF Init, Revisions
<1>10. Shapes
  BY <1>3, <1>5, <1>6, <1>7, <1>8, <1>9 DEF Init, Shapes, IsPoll
<1>11. DeviceIsNewest
  BY <1>3, <1>6 DEF Init, DeviceIsNewest, Observed, Fields
<1>12. \A c \in Commands : CommandIsNoNewer(c)
  BY <1>3, <1>5, <1>8 DEF CommandIsNoNewer, NoJob, Lights, Fields
<1>13. PollIsNewer
  BY <1>7, <1>9 DEF PollIsNewer, Reading, NoSnapshot
<1>14. DisabledIsQuiet /\ ModeRemembered
  BY <1>5, <1>6 DEF Init, DisabledIsQuiet, ModeRemembered
<1>15. QED BY <1>10, <1>11, <1>12, <1>13, <1>14 DEF IInv

LEMMA PollStartsKeepsInv ==
    ASSUME IInv, PollStarts \/ RefreshDue \/ PollFails \/ PollCleanedUp
    PROVE  IInv'
<1>1. UNCHANGED beyondPolls
  BY DEF PollStarts, RefreshDue, PollFails, PollCleanedUp
<1>2. CASE \E b \in BOOLEAN : BeginPoll(b)
  BY <1>1, <1>2, NewPoll
<1>3. CASE poll' = NoPoll
  BY <1>1, <1>3, NoPollKeeps
<1>4. CASE poll' = poll
  <2>1. IsPoll(poll') /\ PollIsNewer'
    BY <1>1, <1>4
       DEF IInv, Shapes, PollIsNewer, IsPoll, beyondPolls, purifierVars, stateVars,
           commandVars, pushVars
  <2>2. QED BY <1>1, <2>1, PollStepsKeepInv
<1>5. QED
  BY <1>2, <1>3, <1>4 DEF PollStarts, RefreshDue, PollFails, PollOver, PollCleanedUp

LEMMA StutterKeepsInv ==
    ASSUME IInv, UNCHANGED vars
    PROVE  IInv'
<1>1. UNCHANGED beyondPolls /\ poll' = poll
  BY DEF vars, beyondPolls, pollVars
<1>2. IsPoll(poll') /\ PollIsNewer'
  BY <1>1 DEF IInv, Shapes, PollIsNewer, IsPoll, beyondPolls, purifierVars, stateVars,
              commandVars, pushVars
<1>3. QED BY <1>1, <1>2, PollStepsKeepInv

LEMMA NextKeepsInv ==
    ASSUME IInv, [Next]_vars
    PROVE  IInv'
<1>1. CASE \E f \in Fields : Change(f)
  BY <1>1, ChangeKeepsInv
<1>2. CASE ModePushApplies
  BY <1>2, ModePushAppliesKeepsInv
<1>3. CASE PollStarts \/ RefreshDue \/ PollStep
  BY <1>3, PollStartsKeepsInv, PollEndsKeepsInv, PollReading DEF PollStep
<1>4. ASSUME NEW c \in Commands, CommandStep(c)
      PROVE  IInv'
  BY <1>4, DecideKeepsInv, ExchangeBeginsKeepsInv, ExecutesKeepsInv,
     CommandFailsKeepsInv, PowerConfirmedKeepsInv, ModeConfirmedKeepsInv,
     LightConfirmedKeepsInv DEF CommandStep
<1>5. ASSUME NEW c \in Commands, NEW r \in plan.asks[c], Call(c, r)
      PROVE  IInv'
  BY <1>5, CallKeepsInv
<1>6. CASE DisablePush \/ Shutdown
  BY <1>6, UnloadKeepsInv
<1>7. CASE Over \/ UNCHANGED vars
  BY <1>7, StutterKeepsInv DEF Over
<1>8. QED BY <1>1, <1>2, <1>3, <1>4, <1>5, <1>6, <1>7 DEF Next

LEMMA InvHolds == Spec => []IInv
<1>1. IInv /\ [Next]_vars => IInv'
  BY NextKeepsInv
<1>2. QED BY InitInv, <1>1, PTL DEF Spec

------------------------------------------------------------------------------
\* The mode that polls repeat is always the mode that is published, with any
\* number of commands, pushes and polls (_last_fan_mode, coordinator.py:175).
THEOREM ModeIsRemembered == Spec => []ModeRemembered
<1>1. IInv => ModeRemembered
  BY DEF IInv
<1>2. QED BY <1>1, InvHolds, PTL

\* A poll publishes nothing that is older (_async_update_data).
LEMMA PollGoesForward ==
    ASSUME IInv, PollEnds
    PROVE  /\ \A f \in Observed : data'[f].at >= data[f].at
           /\ data'.mode = data.mode
<1>1. /\ poll.stage \in {"core", "light"} /\ PollIsNewer /\ "power" \in DOMAIN poll.got
      /\ data.mode = lastMode /\ \A f \in Observed : data[f].at >= data[f].at
  BY PublishedIsNoNewer DEF IInv, PollEnds, PollIsNewer, ModeRemembered, Observed, Fields
<1>2. data'.mode = data.mode
  BY <1>1 DEF PollEnds, Fields
<1>3. ASSUME NEW f \in DOMAIN poll.got \cap Observed, ~OvertakenByPush(Group(f))
      PROVE  poll.got[f].at >= data[f].at
  BY <1>1, <1>3 DEF PollIsNewer, OvertakenByPush
<1>4. data'["power"].at >= data["power"].at
  <2>1. \/ data'["power"] = data["power"]
        \/ data'["power"] = poll.got["power"] /\ ~OvertakenByPush("power")
    BY DEF PollEnds, Fields
  <2> QED BY <1>1, <1>3, <2>1 DEF Observed, Group
<1>5. ASSUME NEW f \in Lights
      PROVE  data'[f].at >= data[f].at
  <2>1. \/ data'[f] = data[f]
        \/ /\ data'[f] = poll.got[f] /\ f \in DOMAIN poll.got
           /\ ~OvertakenByPush("light")
    BY DEF PollEnds, Fields, Lights
  <2>2. f \in Observed /\ f \in Fields /\ Group(f) = "light"
    BY DEF Lights, Observed, Fields, Group
  <2> QED BY <1>1, <1>3, <2>1, <2>2
<1> QED BY <1>2, <1>4, <1>5 DEF Observed, Lights

\* A poll never replaces a value by an older one, whatever was called, pushed and
\* published while it was under way (_async_update_data, coordinator.py:144-196).
THEOREM PollsAreMonotonic == Spec => PollsNeverGoBack
<1>1. ASSUME IInv, PollEnds
      PROVE  \A f \in Fields : data'[f].at >= data[f].at
  <2>1. data["mode"].at >= data["mode"].at
    BY <1>1, PublishedIsNoNewer DEF Fields
  <2> QED BY <1>1, <2>1, PollGoesForward DEF Fields, Observed
<1>2. IInv => [PollEnds => \A f \in Fields : data'[f].at >= data[f].at]_vars
  BY <1>1
<1>3. QED BY <1>2, InvHolds, PTL DEF PollsNeverGoBack

\* Once the client is closed and idle, nothing is sent or published any more
\* (async_shutdown, coordinator.py:132-142; async_close, client.py:1246).
THEOREM QuietWhenClosed == Spec => QuietAfterShutdown
<1>1. ASSUME IInv, [Next]_vars, Closed, ClientFree
      PROVE  ClientFree' /\ UNCHANGED data
  <2>1. /\ shutdown = "closing" /\ poll.stage \notin Reading \cup {"cancelled"}
        /\ \A c \in Commands : job[c].stage # "exchange"
        /\ ~pushEnabled /\ modePushes = <<>> /\ IsJobs(job)
    BY <1>1 DEF Closed, ClientFree, IInv, Shapes, DisabledIsQuiet
  <2>2. poll' = NoPoll => poll'.stage = "none"
    BY DEF NoPoll
  <2>3. CASE \E f \in Fields : Change(f)
    BY <2>1, <2>3 DEF Change, stateVars, commandVars, pollVars, ClientFree
  <2>4. CASE PollStarts \/ RefreshDue \/ PollStep
    <3>1. data' = data /\ job' = job /\ (poll' = poll \/ poll' = NoPoll)
      BY <1>1, <2>1, <2>4
         DEF PollStarts, RefreshDue, PollStep, PollBegins, PollReadsCore, PollReadsLight,
             PollReplayed, PollEnds, PollFails, PollCleanedUp, PollOver, beyondPolls,
             stateVars, commandVars, Reading
    <3>2. QED BY <3>1, <2>1, <2>2 DEF ClientFree, Reading
  <2>5. ASSUME NEW c \in Commands, CommandStep(c)
        PROVE  ClientFree' /\ UNCHANGED data
    <3>1. CASE Decide(c)
      <4>1. \A d \in Commands : job'[d].stage # "exchange"
        BY <2>1, <3>1 DEF Decide, IsJobs, IsJob, JobFields
      <4>2. QED BY <2>1, <3>1, <4>1 DEF Decide, stateVars, pollVars, ClientFree
    <3>2. CASE CommandFails(c)
      <4>1. \A d \in Commands : job'[d].stage # "exchange"
        BY <2>1, <3>2 DEF CommandFails, CommandOver, NoJob, IsJobs, IsJob, JobFields
      <4>2. poll' = poll \/ poll' = NoPoll
        BY <2>1, <3>2 DEF CommandFails, ScheduleRefresh, PollAfterCancel
      <4>3. QED BY <2>1, <2>2, <3>2, <4>1, <4>2 DEF CommandFails, stateVars, ClientFree, Reading
    <3>3. QED
      BY <1>1, <2>1, <2>5, <3>1, <3>2
         DEF CommandStep, ExchangeBegins, ClientOpen, Executes, PowerConfirmed,
             ModeConfirmed, LightConfirmed, Confirmed
  <2>6. CASE UNCHANGED vars
    BY <2>1, <2>6 DEF vars, stateVars, commandVars, pollVars, ClientFree
  <2>7. CASE ModePushApplies \/ DisablePush \/ Shutdown \/ Over
    BY <2>1, <2>6, <2>7 DEF ModePushApplies, DisablePush, Shutdown, Over
  <2>8. CASE \E c \in Commands : \E r \in plan.asks[c] : Call(c, r)
    BY <2>1, <2>8 DEF Call
  <2>9. QED BY <1>1, <2>3, <2>4, <2>5, <2>6, <2>7, <2>8 DEF Next
<1>2. IInv /\ [Next]_vars => [Closed /\ ClientFree => ClientFree' /\ UNCHANGED data]_vars
  BY <1>1
<1>3. QED BY <1>2, InvHolds, PTL DEF QuietAfterShutdown, Spec

================================================================================
