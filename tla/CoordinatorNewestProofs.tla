------------------------ MODULE CoordinatorNewestProofs ------------------------
(***************************************************************************)
(* What is published is never older than what was applied or published     *)
(* before (NewestWins), and the coordinator's types, for any number of     *)
(* commands and whatever is planned.                                       *)
(*                                                                         *)
(* A command publishes what it was answered and what it found when it got  *)
(* the lock.  That both are still the newest rests on two things: no other *)
(* command publishes before it is over, because it heads the queue of      *)
(* _command_lock (InLine), and a push that came since is newer than the    *)
(* revisions it noted (Counted).                                           *)
(***************************************************************************)
EXTENDS CoordinatorProofs, QueueLemmas

\* Revisions, and the times of what is remembered or under way, are of the past.
Counted ==
    /\ commandRevision \in Nat /\ publishedRevision \in 0..commandRevision
    /\ push.mode <= push.count
    /\ lastMode.at <= clock
    /\ \A i \in 1..Len(modePushes) : modePushes[i].at <= clock
    /\ \A c \in Commands :
         job[c].since \in [command : 0..commandRevision, power : 0..push.count,
                           mode : 0..push.count, light : 0..push.count]

\* _command_lock: the commands under way wait for it in line, and only the head
\* of the line is past it.
InLine ==
    /\ IsQueueOf(queue, Commands)
    /\ ToSet(queue) = {c \in Commands : job[c].stage \notin {"idle", "done"}}
    /\ \A c \in Commands : job[c].stage \in {"waiting", "exchange"} => Head(queue) = c

\* A refresh that polls has its poll.
Refreshes ==
    /\ refresh \in {"none", "sleeping", "polling"}
    /\ refresh = "polling" => poll.background /\ poll.stage \in Reading \cup {"waiting"}

\* What a command of each kind asks the purifier for, and so gets.
Asked(kind) == CASE kind = "power" -> {"power"}
                 [] kind = "mode" -> {"power", "mode"}
                 [] kind = "light" -> {"lamp", "brightness", "color"}
Answered(kind) == CASE kind = "power" -> {"power"}
                    [] kind = "mode" -> {"power", "mode"}
                    [] kind = "light" -> Lights
Words(c) ==
    LET j == job[c] IN
    j.stage \in {"waiting", "exchange"} =>
        /\ j.exchanges \in Seq(Seq(Asked(j.request.kind)))
        /\ j.todo \in Seq(Asked(j.request.kind))
        /\ DOMAIN j.got \subseteq Answered(j.request.kind)
        /\ j.stage = "waiting" => j.exchanges # <<>>

\* A command that waits for the lock has no answers yet.
Fresh(c) == job[c].stage = "queued" => job[c].todo = <<>> /\ DOMAIN job[c].got = {}

\* What was applied and published is of the past, and mode pushes that wait for
\* the manager are applied in their order.
History ==
    /\ pushed \in [Fields -> Nat] /\ confirmed \in [Fields -> Nat]
    /\ \A f \in Fields : pushed[f] <= clock /\ confirmed[f] <= clock
    /\ \A i \in 1..Len(modePushes) :
         /\ pushed.mode <= modePushes[i].at
         /\ \A k \in 1..Len(modePushes) : i < k => modePushes[i].at <= modePushes[k].at

\* What a command found is no older than any push or confirmation, unless a push
\* came since.
FoundIsNewest(c) ==
    LET j == job[c] IN
    j.stage \in {"waiting", "exchange"} =>
        /\ ~Since(c, "power") =>
              j.before.at >= pushed.power /\ j.before.at >= confirmed.power
        /\ ~Since(c, "light") => \A f \in Lights :
              j.light[f].at >= pushed[f] /\ j.light[f].at >= confirmed[f]

\* Nor are the answers that it has.
Checked(f) == IF f \in Lights THEN "light" ELSE f
AnsweredIsNewest(c) ==
    job[c].stage \in {"waiting", "exchange"} =>
        \A f \in DOMAIN job[c].got :
            /\ job[c].got[f].at >= confirmed[f]
            /\ ~Since(c, Checked(f)) => job[c].got[f].at >= pushed[f]

Newest ==
    /\ NewestWins
    /\ \A c \in Commands : FoundIsNewest(c) /\ AnsweredIsNewest(c)

JInv ==
    /\ IInv
    /\ Counted
    /\ InLine
    /\ Refreshes
    /\ \A c \in Commands : Words(c) /\ Fresh(c)
    /\ History
    /\ Newest

------------------------------------------------------------------------------
\* What the commands do to the jobs and the queue

LEMMA JobsAreJobs == IInv => IsJobs(job)
BY DEF IInv, Shapes

\* Only one command is past the lock.
LEMMA HeadAlone ==
    ASSUME InLine, NEW c \in Commands, job[c].stage \in {"waiting", "exchange"},
           NEW d \in Commands, d # c
    PROVE  job[d].stage \notin {"waiting", "exchange"}
BY DEF InLine

LEMMA CallJobs ==
    ASSUME IInv, NEW c \in Commands, NEW r, Call(c, r)
    PROVE  /\ \A d \in Commands : d # c => job'[d] = job[d]
           /\ job[c].stage = "idle" /\ job'[c].stage = "queued"
           /\ job'[c].since = Snapshot(commandRevision + 1,
                                  IF r.kind = "mode" THEN {"power", "mode"} ELSE {r.kind})
           /\ queue' = Append(queue, c)
           /\ commandRevision' = commandRevision + 1
           /\ UNCHANGED <<purifierVars, stateVars, publishedRevision, pushVars, shutdown>>
           /\ refresh' = "none"
<1>1. IsJobs(job)
  BY JobsAreJobs
<1> DEFINE new == [NoJob EXCEPT !.stage = "queued", !.request = r,
                     !.since = Snapshot(commandRevision + 1,
                                  IF r.kind = "mode" THEN {"power", "mode"} ELSE {r.kind})]
<1>2. /\ job' = [job EXCEPT ![c] = new] /\ job[c].stage = "idle"
      /\ queue' = Append(queue, c) /\ commandRevision' = commandRevision + 1
      /\ UNCHANGED <<purifierVars, stateVars, publishedRevision, pushVars, shutdown>>
      /\ refresh' = "none"
  BY DEF Call
<1>3. /\ new.stage = "queued"
      /\ new.since = Snapshot(commandRevision + 1,
                              IF r.kind = "mode" THEN {"power", "mode"} ELSE {r.kind})
  BY DEF NoJob
<1> HIDE DEF new
<1>4. job'[c] = new /\ \A d \in Commands : d # c => job'[d] = job[d]
  BY <1>1, <1>2 DEF IsJobs
<1> QED BY <1>2, <1>3, <1>4

LEMMA DecideJobs ==
    ASSUME IInv, NEW c \in Commands, Decide(c)
    PROVE  /\ \A d \in Commands : d # c => job'[d] = job[d]
           /\ job[c].stage = "queued" /\ job'[c].stage = "waiting" /\ Head(queue) = c
           /\ job'[c].since = job[c].since /\ job'[c].request = job[c].request
           /\ job'[c].exchanges = Exchanges(job[c].request)
           /\ job'[c].todo = job[c].todo /\ job'[c].got = job[c].got
           /\ job'[c].before = data.power
           /\ job'[c].light = [f \in Lights |-> data[f]]
<1>1. IsJobs(job)
  BY JobsAreJobs
<1> QED BY <1>1 DEF IsJobs, IsJob, JobFields, Decide

LEMMA ExchangeBeginsJobs ==
    ASSUME IInv, NEW c \in Commands, ExchangeBegins(c)
    PROVE  /\ \A d \in Commands : d # c => job'[d] = job[d]
           /\ job[c].stage = "waiting" /\ job'[c].stage = "exchange"
           /\ job'[c].since = job[c].since /\ job'[c].request = job[c].request
           /\ job'[c].exchanges = Tail(job[c].exchanges)
           /\ job'[c].todo = Head(job[c].exchanges) /\ job'[c].got = job[c].got
           /\ job'[c].before = job[c].before /\ job'[c].light = job[c].light
<1>1. IsJobs(job)
  BY JobsAreJobs
<1> QED BY <1>1 DEF IsJobs, IsJob, JobFields, ExchangeBegins

LEMMA ExecutesJobs ==
    ASSUME IInv, NEW c \in Commands, Executes(c)
    PROVE  LET request == Head(job[c].todo)
               g == IF request = "brightness" THEN "lamp" ELSE request
           IN  /\ \A d \in Commands : d # c => job'[d] = job[d]
               /\ job[c].stage = "exchange" /\ job'[c].stage = "exchange"
               /\ job'[c].since = job[c].since /\ job'[c].request = job[c].request
               /\ job'[c].exchanges = job[c].exchanges
               /\ job[c].todo # <<>> /\ job'[c].todo = Tail(job[c].todo)
               /\ DOMAIN job'[c].got = DOMAIN job[c].got \cup {g}
               /\ \A h \in DOMAIN job'[c].got :
                     job'[c].got[h].at = IF h = g THEN clock + 1 ELSE job[c].got[h].at
               /\ job'[c].before = job[c].before /\ job'[c].light = job[c].light
               /\ clock' = clock + 1
<1> DEFINE request == Head(job[c].todo)
           g == IF request = "brightness" THEN "lamp" ELSE request
           is == CASE request = "power" -> IF job[c].request.kind = "mode" THEN "on"
                                           ELSE job[c].request.is
                   [] request = "lamp" -> job[c].request.is
                   [] request = "brightness" -> device.lamp.is
                   [] OTHER -> "set"
           todo == Tail(job[c].todo)
           got == [h \in DOMAIN job[c].got \cup {g} |->
                     IF h = g THEN Value(is, clock + 1) ELSE job[c].got[h]]
<1>1. IsJobs(job)
  BY JobsAreJobs
<1>2. /\ job' = [job EXCEPT ![c].todo = todo, ![c].got = got]
      /\ job[c].stage = "exchange" /\ job[c].todo # <<>> /\ clock' = clock + 1
  BY <1>1 DEF Executes
<1>3. /\ DOMAIN got = DOMAIN job[c].got \cup {g}
      /\ \A h \in DOMAIN got : got[h].at = IF h = g THEN clock + 1 ELSE job[c].got[h].at
  BY DEF Value
<1> HIDE DEF todo, got
<1>4. /\ \A d \in Commands : d # c => job'[d] = job[d]
      /\ job'[c].stage = job[c].stage
      /\ job'[c].since = job[c].since /\ job'[c].request = job[c].request
      /\ job'[c].exchanges = job[c].exchanges
      /\ job'[c].before = job[c].before /\ job'[c].light = job[c].light
      /\ job'[c].todo = todo /\ job'[c].got = got
  BY <1>1, <1>2 DEF IsJobs, IsJob, JobFields
<1> QED BY <1>2, <1>3, <1>4 DEF todo

LEMMA OverJobs ==
    ASSUME IInv, NEW c \in Commands, CommandOver(c)
    PROVE  /\ \A d \in Commands : d # c => job'[d] = job[d]
           /\ job'[c].stage = "done" /\ job'[c].since = NoSnapshot
           /\ queue' = Remaining(queue, {c})
<1>1. IsJobs(job)
  BY JobsAreJobs
<1>2. job' = [job EXCEPT ![c] = [NoJob EXCEPT !.stage = "done"]]
      /\ queue' = Remaining(queue, {c})
  BY DEF CommandOver
<1>3. /\ [NoJob EXCEPT !.stage = "done"].stage = "done"
      /\ [NoJob EXCEPT !.stage = "done"].since = NoSnapshot
  BY DEF NoJob
<1> QED BY <1>1, <1>2, <1>3 DEF IsJobs

\* A light command goes on with its next exchange.
LightGoesOn(c) == LightConfirmed(c) /\ job[c].exchanges # <<>>

LEMMA LightGoesOnJobs ==
    ASSUME IInv, NEW c \in Commands, LightGoesOn(c)
    PROVE  /\ \A d \in Commands : d # c => job'[d] = job[d]
           /\ job[c].stage = "exchange" /\ job'[c].stage = "waiting"
           /\ job[c].todo = <<>> /\ job[c].exchanges # <<>>
           /\ job'[c].since = job[c].since /\ job'[c].request = job[c].request
           /\ job'[c].exchanges = job[c].exchanges /\ job'[c].todo = job[c].todo
           /\ DOMAIN job'[c].got = {} /\ job'[c].before = job[c].before
           /\ ~Since(c, "light") =>
                 job'[c].light = [f \in Lights |-> IF f \in DOMAIN job[c].got
                                                   THEN job[c].got[f] ELSE job[c].light[f]]
           /\ UNCHANGED <<queue, poll, refresh>>
<1>1. IsJobs(job)
  BY JobsAreJobs
<1> DEFINE light == [f \in Lights |-> IF f \in DOMAIN job[c].got
                                      THEN job[c].got[f] ELSE job[c].light[f]]
           newLight == IF Since(c, "light") THEN [f \in Lights |-> data[f]] ELSE light
           newGot == NoJob.got
<1>2. /\ job' = [job EXCEPT ![c].stage = "waiting", ![c].got = newGot,
                            ![c].confirmed = TRUE, ![c].light = newLight]
      /\ UNCHANGED <<queue, poll, refresh>> /\ job[c].exchanges # <<>>
      /\ job[c].stage = "exchange" /\ job[c].todo = <<>>
  BY DEF LightGoesOn, LightConfirmed, Confirmed
<1>3. DOMAIN newGot = {} /\ (~Since(c, "light") => newLight = light)
  BY DEF NoJob
<1> HIDE DEF newLight, newGot
<1>4. /\ \A d \in Commands : d # c => job'[d] = job[d]
      /\ job'[c].stage = "waiting" /\ job'[c].since = job[c].since
      /\ job'[c].request = job[c].request /\ job'[c].exchanges = job[c].exchanges
      /\ job'[c].todo = job[c].todo /\ job'[c].before = job[c].before
      /\ job'[c].got = newGot /\ job'[c].light = newLight
  BY <1>1, <1>2 DEF IsJobs, IsJob, JobFields
<1> QED BY <1>2, <1>3, <1>4

------------------------------------------------------------------------------
\* The line for _command_lock

\* Nobody comes or goes; only the head of the line may be past the lock.
LEMMA LineStands ==
    ASSUME InLine, queue' = queue,
           \A c \in Commands :
             \/ job'[c].stage = job[c].stage
             \/ /\ Head(queue) = c
                /\ {job[c].stage, job'[c].stage} \subseteq {"queued", "waiting", "exchange"}
    PROVE  InLine'
BY DEF InLine, IsQueueOf

LEMMA CallKeepsLine ==
    ASSUME IInv, InLine, NEW c \in Commands, NEW r, Call(c, r)
    PROVE  InLine'
<1>1. /\ \A d \in Commands : d # c => job'[d] = job[d]
      /\ job[c].stage = "idle" /\ job'[c].stage = "queued"
      /\ queue' = Append(queue, c)
  BY CallJobs
<1>2. IsQueueOf(queue, Commands) /\ c \notin ToSet(queue)
  BY <1>1 DEF InLine
<1>3. IsQueueOf(queue', Commands) /\ ToSet(queue') = ToSet(queue) \cup {c}
  BY <1>1, <1>2, AppendToQueue
<1>4. ToSet(queue') = {d \in Commands : job'[d].stage \notin {"idle", "done"}}
  BY <1>1, <1>3 DEF InLine
<1>5. ASSUME NEW d \in Commands, job'[d].stage \in {"waiting", "exchange"}
      PROVE  Head(queue') = d
  <2>1. d # c /\ job[d].stage \in {"waiting", "exchange"}
    BY <1>1, <1>5
  <2>2. d \in ToSet(queue) /\ Head(queue) = d
    BY <2>1 DEF InLine
  <2>3. queue # <<>> /\ queue \in Seq(Commands)
    BY <1>2, <2>2, EmptySeq DEF ToSet, IsQueueOf
  <2>4. Head(Append(queue, c)) = Head(queue)
    BY <2>3
  <2> QED BY <1>1, <2>2, <2>4
<1> QED BY <1>3, <1>4, <1>5 DEF InLine

LEMMA OverKeepsLine ==
    ASSUME IInv, InLine, NEW c \in Commands, CommandOver(c)
    PROVE  InLine'
<1>1. /\ \A d \in Commands : d # c => job'[d] = job[d]
      /\ job'[c].stage = "done" /\ queue' = Remaining(queue, {c})
  BY OverJobs
<1>2. IsQueueOf(queue, Commands)
  BY DEF InLine
<1>3. /\ IsQueueOf(queue', Commands) /\ ToSet(queue') = ToSet(queue) \ {c}
      /\ queue # <<>> /\ Head(queue) \notin {c} => Head(queue') = Head(queue)
  BY <1>1, <1>2, RemainingQueue
<1>4. ToSet(queue') = {d \in Commands : job'[d].stage \notin {"idle", "done"}}
  BY <1>1, <1>3 DEF InLine
<1>5. ASSUME NEW d \in Commands, job'[d].stage \in {"waiting", "exchange"}
      PROVE  Head(queue') = d
  <2>1. d # c /\ job[d].stage \in {"waiting", "exchange"}
    BY <1>1, <1>5
  <2>2. d \in ToSet(queue) /\ Head(queue) = d
    BY <2>1 DEF InLine
  <2>3. queue # <<>>
    BY <2>2, EmptySeq DEF ToSet
  <2> QED BY <1>3, <2>1, <2>2, <2>3
<1> QED BY <1>3, <1>4, <1>5 DEF InLine

\* A confirmation ends the command, or a light command goes on.
LEMMA ConfirmationEnds ==
    ASSUME NEW c, PowerConfirmed(c) \/ ModeConfirmed(c) \/ LightConfirmed(c)
    PROVE  /\ Confirmed(c)
           /\ \/ CommandOver(c) /\ ScheduleRefresh
              \/ LightGoesOn(c)
<1>1. CASE PowerConfirmed(c) \/ ModeConfirmed(c)
  BY <1>1 DEF PowerConfirmed, ModeConfirmed
<1>2. CASE LightConfirmed(c)
  BY <1>2 DEF LightConfirmed, LightGoesOn
<1> QED BY <1>1, <1>2

LEMMA CommandStepKeepsLine ==
    ASSUME IInv, InLine, NEW c \in Commands, CommandStep(c)
    PROVE  InLine'
<1>1. CASE Decide(c)
  <2>1. queue' = queue
    BY <1>1 DEF Decide
  <2> QED BY <1>1, <2>1, DecideJobs, LineStands
<1>2. CASE ExchangeBegins(c)
  <2>1. queue' = queue
    BY <1>2 DEF ExchangeBegins
  <2>2. Head(queue) = c
    BY <1>2, ExchangeBeginsJobs DEF InLine
  <2> QED BY <1>2, <2>1, <2>2, ExchangeBeginsJobs, LineStands
<1>3. CASE Executes(c)
  <2>1. queue' = queue
    BY <1>3 DEF Executes
  <2> QED BY <1>3, <2>1, ExecutesJobs, LineStands
<1>4. CASE CommandFails(c)
  <2>1. CommandOver(c)
    BY <1>4 DEF CommandFails
  <2> QED BY <2>1, OverKeepsLine
<1>5. CASE LightGoesOn(c)
  <2>1. /\ job[c].stage = "exchange" /\ job'[c].stage = "waiting" /\ queue' = queue
        /\ \A d \in Commands : d # c => job'[d] = job[d]
    BY <1>5, LightGoesOnJobs
  <2>2. Head(queue) = c
    BY <2>1 DEF InLine
  <2> QED BY <2>1, <2>2, LineStands
<1> QED BY <1>1, <1>2, <1>3, <1>4, <1>5, ConfirmationEnds, OverKeepsLine DEF CommandStep

LEMMA OthersLeaveCommands ==
    ASSUME \/ \E f \in Fields : Change(f)
           \/ ModePushApplies \/ PollStarts \/ RefreshDue \/ PollStep
           \/ DisablePush \/ Shutdown \/ Over \/ UNCHANGED vars
    PROVE  UNCHANGED commandVars
BY DEF Change, ModePushApplies, PollStarts, RefreshDue, PollStep, PollBegins, PollReplayed,
       PollEnds, PollFails, PollCleanedUp, PollReadsCore, PollReadsLight, DisablePush,
       Shutdown, Over, vars, beyondPolls

LEMMA LineIsKept ==
    ASSUME IInv, InLine, [Next]_vars
    PROVE  InLine'
<1>1. CASE \E c \in Commands : CommandStep(c)
  BY <1>1, CommandStepKeepsLine
<1>2. CASE \E c \in Commands : \E r \in plan.asks[c] : Call(c, r)
  BY <1>2, CallKeepsLine
<1>3. CASE UNCHANGED commandVars
  <2>1. queue' = queue /\ job' = job
    BY <1>3 DEF commandVars
  <2> QED BY <2>1 DEF InLine, IsQueueOf
<1> QED BY <1>1, <1>2, <1>3, OthersLeaveCommands DEF Next

------------------------------------------------------------------------------
\* The refresh and its poll

LEMMA RefreshCancelled ==
    ASSUME Refreshes, refresh' \in {"none", "sleeping"}
    PROVE  Refreshes'
BY DEF Refreshes

LEMMA RefreshesAreKept ==
    ASSUME IInv, Refreshes, [Next]_vars
    PROVE  Refreshes'
<1>1. CASE ScheduleRefresh \/ Shutdown \/ \E c \in Commands : \E r \in plan.asks[c] : Call(c, r)
  BY <1>1, RefreshCancelled DEF ScheduleRefresh, Shutdown, Call
<1>2. CASE UNCHANGED pollVars
  BY <1>2 DEF Refreshes, pollVars
<1>3. CASE PollOver
  BY <1>3 DEF PollOver, Refreshes, NoPoll
<1>4. CASE PollStarts \/ PollCleanedUp
  <2>1. refresh' = refresh /\ poll.stage \in {"none", "cancelled"}
    BY <1>4 DEF PollStarts, PollCleanedUp
  <2> QED BY <2>1 DEF Refreshes, Reading
<1>5. CASE RefreshDue
  <2>1. \/ refresh' = "none"
        \/ BeginPoll(TRUE) /\ refresh' = "polling"
    BY <1>5 DEF RefreshDue
  <2>2. BeginPoll(TRUE) => poll'.stage = "waiting" /\ poll'.background
    BY DEF BeginPoll, NoPoll
  <2> QED BY <2>1, <2>2 DEF Refreshes
<1>6. CASE \/ PollBegins \/ PollReplayed \/ PollReadsCore
           \/ \E fields \in (SUBSET Lights) \ {{}} : PollReadsLight(fields)
  <2>1. IsPoll(poll)
    BY DEF IInv, Shapes
  <2>2. /\ refresh' = refresh /\ poll'.background = poll.background
        /\ poll'.stage \in Reading \cup {"waiting"}
    BY <1>6, <2>1 DEF IsPoll, PollBegins, PollReplayed, PollReadsCore, PollReadsLight, Reading
  <2> QED BY <2>2 DEF Refreshes
<1>7. ASSUME NEW c \in Commands, CommandStep(c)
      PROVE  ScheduleRefresh \/ UNCHANGED pollVars
  <2>1. CASE Decide(c) \/ ExchangeBegins(c) \/ Executes(c) \/ CommandFails(c)
    BY <2>1 DEF Decide, ExchangeBegins, Executes, CommandFails, pollVars
  <2>2. CASE LightGoesOn(c)
    BY <2>2, LightGoesOnJobs DEF pollVars
  <2> QED BY <1>7, <2>1, <2>2, ConfirmationEnds DEF CommandStep
<1>8. CASE \E f \in Fields : Change(f) \/ ModePushApplies \/ DisablePush \/ Over
  BY <1>2, <1>8 DEF Change, ModePushApplies, DisablePush, Over, vars
<1>9. CASE PollStep
  BY <1>3, <1>4, <1>6, <1>9 DEF PollStep, PollEnds, PollFails
<1>10. CASE UNCHANGED vars
  BY <1>2, <1>10 DEF vars
<1>11. Fields # {}
  BY DEF Fields
<1> QED BY <1>1, <1>2, <1>4, <1>5, <1>7, <1>8, <1>9, <1>10, <1>11 DEF Next

------------------------------------------------------------------------------
\* What a command asks for is what it gets

LEMMA OneElement ==
    ASSUME NEW S, NEW s \in S
    PROVE  <<s>> \in Seq(S) /\ <<s>> # <<>>
OBVIOUS

LEMMA ExchangesOfRequest ==
    ASSUME NEW r \in Requests
    PROVE  /\ Exchanges(r) \in Seq(Seq(Asked(r.kind)))
           /\ Exchanges(r) # <<>>
<1>1. CASE r.kind = "power"
  <2>1. Exchanges(r) = << <<"power">> >> /\ Asked(r.kind) = {"power"}
    BY <1>1 DEF Exchanges, Asked
  <2> QED BY <2>1
<1>2. CASE r.kind = "mode"
  <2> DEFINE W == {"power", "mode"}
  <2>1. /\ Exchanges(r) = << <<"power", "mode">> >> \/ Exchanges(r) = << <<"mode">> >>
        /\ Asked(r.kind) = W
    BY <1>2 DEF Exchanges, Asked
  <2>2. <<"power", "mode">> \in Seq(W) /\ <<"mode">> \in Seq(W)
    OBVIOUS
  <2>3. \A s \in Seq(W) : <<s>> \in Seq(Seq(W)) /\ <<s>> # <<>>
    BY OneElement
  <2> QED BY ONLY <2>1, <2>2, <2>3
<1>3. CASE r.kind = "light"
  <2> DEFINE W == {"lamp", "brightness", "color"}
             first == IF r.is = "off" \/ r.settings = {} \/ data.lamp.is # "on"
                      THEN << <<"lamp">> >> ELSE <<>>
             second == IF "brightness" \in r.settings THEN << <<"brightness">> >> ELSE <<>>
             third == IF "color" \in r.settings THEN << <<"color">> >> ELSE <<>>
  <2>1. Exchanges(r) = first \o second \o third /\ Asked(r.kind) = W
    BY <1>3 DEF Exchanges, Asked
  <2>2. /\ first \in Seq(Seq(W)) /\ second \in Seq(Seq(W)) /\ third \in Seq(Seq(W))
    <3>1. <<"lamp">> \in Seq(W) /\ <<"brightness">> \in Seq(W) /\ <<"color">> \in Seq(W)
      OBVIOUS
    <3>2. \A s \in Seq(W) : <<s>> \in Seq(Seq(W))
      BY OneElement
    <3>3. <<>> \in Seq(Seq(W))
      BY EmptySeq
    <3> QED BY ONLY <3>1, <3>2, <3>3
  <2>3. Len(first) # 0 \/ Len(second) # 0 \/ Len(third) # 0
    <3>1. r.settings \subseteq {"brightness", "color"}
      BY DEF Requests
    <3>2. r.settings = {} \/ "brightness" \in r.settings \/ "color" \in r.settings
      BY <3>1
    <3> QED BY <3>2
  <2> HIDE DEF first, second, third, W
  <2>4. /\ first \o second \in Seq(Seq(W))
        /\ Len(first \o second) = Len(first) + Len(second)
    BY <2>2, ConcatProperties
  <2>5. /\ first \o second \o third \in Seq(Seq(W))
        /\ Len(first \o second \o third) = Len(first \o second) + Len(third)
    BY <2>2, <2>4, ConcatProperties
  <2>6. Len(first) \in Nat /\ Len(second) \in Nat /\ Len(third) \in Nat
    BY <2>2, LenProperties
  <2>7. Len(first \o second \o third) # 0
    BY <2>3, <2>4, <2>5, <2>6
  <2>8. Len(<<>>) = 0
    OBVIOUS
  <2> QED BY <2>1, <2>5, <2>7, <2>8
<1> QED BY <1>1, <1>2, <1>3 DEF Requests

LEMMA AskedIsAnswered ==
    ASSUME NEW kind \in {"power", "mode", "light"}, NEW w \in Asked(kind)
    PROVE  (IF w = "brightness" THEN "lamp" ELSE w) \in Answered(kind)
BY DEF Asked, Answered, Lights

LEMMA RequestOf ==
    ASSUME IInv, NEW c \in Commands, job[c].stage \in {"queued", "waiting", "exchange"}
    PROVE  /\ job[c].request \in Requests
           /\ job[c].request.kind \in {"power", "mode", "light"}
BY DEF IInv, CommandIsNoNewer, Requests

LEMMA CommandStepKeepsWords ==
    ASSUME IInv, NEW c \in Commands, CommandStep(c), Words(c), Fresh(c)
    PROVE  Words(c)' /\ Fresh(c)'
<1> DEFINE W == Asked(job[c].request.kind)
<1>1. CASE Decide(c)
  <2>1. /\ job[c].stage = "queued" /\ job'[c].stage = "waiting"
        /\ job'[c].request = job[c].request
        /\ job'[c].exchanges = Exchanges(job[c].request)
        /\ job'[c].todo = job[c].todo /\ job'[c].got = job[c].got
    BY <1>1, DecideJobs
  <2>2. /\ job'[c].exchanges \in Seq(Seq(W)) /\ job'[c].exchanges # <<>>
    BY <2>1, RequestOf, ExchangesOfRequest
  <2>3. job'[c].todo = <<>> /\ DOMAIN job'[c].got = {}
    BY <2>1 DEF Fresh
  <2> QED BY <2>1, <2>2, <2>3 DEF Words, Fresh
<1>2. CASE ExchangeBegins(c)
  <2>1. /\ job[c].stage = "waiting" /\ job'[c].stage = "exchange"
        /\ job'[c].request = job[c].request
        /\ job'[c].exchanges = Tail(job[c].exchanges)
        /\ job'[c].todo = Head(job[c].exchanges) /\ job'[c].got = job[c].got
    BY <1>2, ExchangeBeginsJobs
  <2>2. job[c].exchanges \in Seq(Seq(W)) /\ job[c].exchanges # <<>>
    BY <2>1 DEF Words
  <2>3. job'[c].exchanges \in Seq(Seq(W)) /\ job'[c].todo \in Seq(W)
    BY <2>1, <2>2, TailIndex
  <2> QED BY <2>1, <2>3 DEF Words, Fresh
<1>3. CASE Executes(c)
  <2> DEFINE w == Head(job[c].todo)
             g == IF w = "brightness" THEN "lamp" ELSE w
  <2>1. /\ job[c].stage = "exchange" /\ job'[c].stage = "exchange"
        /\ job'[c].request = job[c].request /\ job'[c].exchanges = job[c].exchanges
        /\ job[c].todo # <<>> /\ job'[c].todo = Tail(job[c].todo)
        /\ DOMAIN job'[c].got = DOMAIN job[c].got \cup {g}
    BY <1>3, ExecutesJobs
  <2>2. job[c].todo \in Seq(W)
    BY <2>1 DEF Words
  <2>3. job'[c].todo \in Seq(W) /\ w \in W
    BY <2>1, <2>2, TailIndex
  <2>4. g \in Answered(job[c].request.kind)
    BY <2>1, <2>3, RequestOf, AskedIsAnswered
  <2> HIDE DEF g, w
  <2> QED BY <2>1, <2>3, <2>4 DEF Words, Fresh
<1>4. CASE CommandOver(c)
  <2>1. job'[c].stage = "done"
    BY <1>4, OverJobs
  <2> QED BY <2>1 DEF Words, Fresh
<1>5. CASE LightGoesOn(c)
  <2>1. /\ job[c].stage = "exchange" /\ job'[c].stage = "waiting"
        /\ job[c].exchanges # <<>>
        /\ job'[c].request = job[c].request
        /\ job'[c].exchanges = job[c].exchanges /\ job'[c].todo = job[c].todo
        /\ DOMAIN job'[c].got = {}
    BY <1>5, LightGoesOnJobs
  <2> QED BY <2>1 DEF Words, Fresh
<1> QED BY <1>1, <1>2, <1>3, <1>4, <1>5, ConfirmationEnds DEF CommandStep, CommandFails

LEMMA CallKeepsWords ==
    ASSUME IInv, NEW c \in Commands, NEW r, Call(c, r)
    PROVE  Words(c)' /\ Fresh(c)'
<1>1. IsJobs(job)
  BY JobsAreJobs
<1> DEFINE new == [NoJob EXCEPT !.stage = "queued", !.request = r,
                     !.since = Snapshot(commandRevision + 1,
                                  IF r.kind = "mode" THEN {"power", "mode"} ELSE {r.kind})]
<1>2. new.stage = "queued" /\ new.todo = <<>> /\ DOMAIN new.got = {}
  BY DEF NoJob
<1>3. job' = [job EXCEPT ![c] = new]
  BY DEF Call
<1> HIDE DEF new
<1>4. job'[c] = new
  BY <1>1, <1>3 DEF IsJobs
<1> QED BY <1>2, <1>4 DEF Words, Fresh

LEMMA WordsAreKept ==
    ASSUME IInv, [Next]_vars, \A c \in Commands : Words(c) /\ Fresh(c)
    PROVE  \A c \in Commands : Words(c)' /\ Fresh(c)'
<1>1. ASSUME NEW c \in Commands, job'[c] = job[c]
      PROVE  Words(c)' /\ Fresh(c)'
  BY <1>1 DEF Words, Fresh
<1>2. ASSUME NEW c \in Commands, CommandStep(c)
      PROVE  \A d \in Commands : d # c => job'[d] = job[d]
  BY <1>2, DecideJobs, ExchangeBeginsJobs, ExecutesJobs, OverJobs, LightGoesOnJobs,
     ConfirmationEnds DEF CommandStep, CommandFails
<1>3. CASE \E c \in Commands : CommandStep(c)
  BY <1>1, <1>2, <1>3, CommandStepKeepsWords
<1>4. CASE \E c \in Commands : \E r \in plan.asks[c] : Call(c, r)
  BY <1>1, <1>4, CallJobs, CallKeepsWords
<1>5. CASE UNCHANGED commandVars
  BY <1>1, <1>5 DEF commandVars
<1> QED BY <1>3, <1>4, <1>5, OthersLeaveCommands DEF Next

------------------------------------------------------------------------------
\* Revisions and times

LEMMA CountedKept ==
    ASSUME IInv, Counted, clock' \in Nat, clock <= clock',
           commandRevision' \in Nat, commandRevision <= commandRevision',
           publishedRevision' \in 0..commandRevision',
           push'.count \in Nat, push.count <= push'.count, push'.mode <= push'.count,
           lastMode'.at <= clock',
           \A i \in 1..Len(modePushes') : modePushes'[i].at <= clock',
           \A c \in Commands :
             job'[c].since \in
                {job[c].since} \cup [command : 0..commandRevision', power : 0..push'.count,
                                     mode : 0..push'.count, light : 0..push'.count]
    PROVE  Counted'
<1>1. clock \in Nat /\ push.count \in Nat
  BY DEF IInv, Shapes, Revisions
<1>2. 0..commandRevision \subseteq 0..commandRevision' /\ 0..push.count \subseteq 0..push'.count
  BY <1>1 DEF Counted
<1>3. ASSUME NEW c \in Commands
      PROVE  job'[c].since \in [command : 0..commandRevision', power : 0..push'.count,
                                mode : 0..push'.count, light : 0..push'.count]
  <2>1. job[c].since \in [command : 0..commandRevision, power : 0..push.count,
                          mode : 0..push.count, light : 0..push.count]
    BY DEF Counted
  <2>2. job[c].since \in [command : 0..commandRevision', power : 0..push'.count,
                          mode : 0..push'.count, light : 0..push'.count]
    BY ONLY <1>2, <2>1
  <2> QED BY <2>2
<1> QED BY <1>3 DEF Counted

LEMMA ApplyPushEffect ==
    ASSUME IInv, Counted, NEW g \in {"power", "mode", "lamp"}, NEW value \in Stamped,
           ApplyPush(g, value), clock' \in Nat, clock <= clock', value.at <= clock'
    PROVE  /\ push.count \in Nat /\ push'.count = push.count + 1
           /\ push'.mode <= push'.count
           /\ push'.power = IF g = "power" THEN push.count + 1 ELSE push.power
           /\ push'.mode = IF g = "mode" THEN push.count + 1 ELSE push.mode
           /\ push'.light = IF g = "lamp" THEN push.count + 1 ELSE push.light
           /\ lastMode'.at <= clock'
           /\ \A f \in Observed : data'[f] = IF f = g THEN value ELSE data[f]
           /\ data'.mode = data.mode \/ data'.mode.is = "none" \/ g = "mode"
           /\ g = "mode" => data'.mode = value
<1>1. /\ push \in Revisions /\ push.count \in Nat /\ push.mode <= push.count
      /\ data \in [Fields -> Stamped] /\ clock \in Nat /\ lastMode \in Stamped
      /\ lastMode.at <= clock /\ lastMode.at \in Nat
  BY DEF IInv, Shapes, Revisions, Counted, Stamped
<1>2. lastMode.at <= clock'
  BY <1>1
<1>3. CASE g = "power"
  <2> DEFINE n == push.count + 1
  <2>1. /\ push' = [push EXCEPT !.count = n, !.power = n]
        /\ data' = [data EXCEPT !.power = value, !.mode = WithoutMode(value, data.mode)]
        /\ lastMode' = WithoutMode(value, lastMode)
    BY <1>3 DEF ApplyPush, Remembered
  <2>2. n \in Nat /\ push.mode <= n
    BY <1>1 DEF Revisions
  <2> HIDE DEF n
  <2>3. push'.count = n /\ push'.power = n /\ push'.light = push.light
        /\ push'.mode = push.mode
    BY <1>1, <2>1 DEF Revisions
  <2>4. lastMode'.at <= clock'
    BY <1>2, <2>1 DEF WithoutMode, Off, Value
  <2>5. WithoutMode(value, data.mode) = data.mode \/ WithoutMode(value, data.mode).is = "none"
    BY DEF WithoutMode, Off, Value
  <2>6. /\ \A f \in Observed : data'[f] = IF f = g THEN value ELSE data[f]
        /\ data'.mode = data.mode \/ data'.mode.is = "none"
    BY <1>1, <1>3, <2>1, <2>5 DEF Observed, Fields
  <2> QED BY <1>1, <1>3, <2>2, <2>3, <2>4, <2>6 DEF n
<1>4. CASE g = "mode"
  <2> DEFINE n == push.count + 1
  <2>1. /\ push' = [push EXCEPT !.count = n, !.mode = n]
        /\ data' = [data EXCEPT !.mode = value] /\ lastMode' = value
    BY <1>4 DEF ApplyPush
  <2>2. n \in Nat /\ n <= n
    BY <1>1
  <2> HIDE DEF n
  <2>3. push'.count = n /\ push'.power = push.power /\ push'.light = push.light
        /\ push'.mode = n
    BY <1>1, <2>1 DEF Revisions
  <2>4. /\ \A f \in Observed : data'[f] = IF f = g THEN value ELSE data[f]
        /\ data'.mode = value
    BY <1>1, <1>4, <2>1 DEF Observed, Fields
  <2> QED BY <1>1, <1>4, <2>1, <2>2, <2>3, <2>4 DEF n
<1>5. CASE g = "lamp"
  <2> DEFINE n == push.count + 1
  <2>1. /\ push' = [push EXCEPT !.count = n, !.light = n]
        /\ data' = [data EXCEPT !.lamp = value] /\ lastMode' = lastMode
    BY <1>5 DEF ApplyPush
  <2>2. n \in Nat /\ push.mode <= n
    BY <1>1 DEF Revisions
  <2> HIDE DEF n
  <2>3. push'.count = n /\ push'.power = push.power /\ push'.light = n
        /\ push'.mode = push.mode
    BY <1>1, <2>1 DEF Revisions
  <2>4. /\ \A f \in Observed : data'[f] = IF f = g THEN value ELSE data[f]
        /\ data'.mode = data.mode
    BY <1>1, <1>5, <2>1 DEF Observed, Fields
  <2> QED BY <1>1, <1>2, <1>5, <2>1, <2>2, <2>3, <2>4 DEF n
<1> QED BY <1>3, <1>4, <1>5

LEMMA ChangeKeepsCounted ==
    ASSUME IInv, Counted, NEW f \in Fields, Change(f)
    PROVE  Counted'
<1> DEFINE is == CASE device[f].is = "on" -> "off" [] device[f].is = "off" -> "on"
                   [] OTHER -> "set"
           value == Value(is, clock + 1)
<1>1. /\ clock' = clock + 1 /\ UNCHANGED commandVars
      /\ \/ UNCHANGED <<push, modePushes, stateVars>>
         \/ f # "color" /\ Pushed(f, value)
  BY DEF Change
<1>2. value \in Stamped /\ value.at = clock + 1
  BY DEF IInv, Shapes, Value, Stamped
<1> HIDE DEF value
<1>3. /\ clock \in Nat /\ clock' \in Nat /\ clock <= clock' /\ value.at <= clock'
      /\ push.count \in Nat /\ modePushes \in Seq(Stamped)
      /\ \A i \in 1..Len(modePushes) : modePushes[i] \in Stamped
  BY <1>1, <1>2 DEF IInv, Shapes, Revisions
<1>4. \A i \in 1..Len(modePushes) : modePushes[i].at <= clock'
  BY <1>1, <1>3 DEF Counted, Stamped
<1>5. /\ job' = job /\ commandRevision' = commandRevision
      /\ publishedRevision' = publishedRevision
      /\ commandRevision \in Nat /\ publishedRevision \in 0..commandRevision
      /\ push.mode <= push.count /\ lastMode.at <= clock'
  BY <1>1, <1>3 DEF commandVars, Counted, IInv, Shapes, Stamped
<1>6. CASE UNCHANGED <<push, modePushes, stateVars>>
  <2>1. push' = push /\ modePushes' = modePushes /\ lastMode' = lastMode
    BY <1>6 DEF stateVars
  <2> QED BY <1>3, <1>4, <1>5, <2>1, CountedKept
<1>7. CASE f = "mode" /\ Pushed(f, value)
  <2>1. modePushes' = Append(modePushes, value) /\ push' = push /\ lastMode' = lastMode
    BY <1>7 DEF Pushed, stateVars
  <2>2. /\ Len(modePushes') = Len(modePushes) + 1 /\ Len(modePushes) \in Nat
        /\ \A i \in 1..Len(modePushes) : modePushes'[i] = modePushes[i]
        /\ modePushes'[Len(modePushes) + 1] = value
    BY <1>2, <1>3, <2>1, AppendIndex, LenProperties
  <2>3. \A i \in 1..Len(modePushes') : modePushes'[i].at <= clock'
    BY <1>3, <1>4, <2>2
  <2> QED BY <1>3, <1>5, <2>1, <2>3, CountedKept
<1>8. CASE f # "mode" /\ f # "color" /\ Pushed(f, value)
  <2>1. ApplyPush(f, value) /\ modePushes' = modePushes /\ f \in {"power", "mode", "lamp"}
    BY <1>8 DEF Pushed, Fields
  <2>2. /\ push'.count = push.count + 1 /\ push'.mode <= push'.count
        /\ lastMode'.at <= clock'
    BY <1>2, <1>3, <2>1, ApplyPushEffect
  <2>3. push'.count \in Nat /\ push.count <= push'.count
    BY <1>3, <2>2
  <2> QED BY <1>3, <1>4, <1>5, <2>1, <2>2, <2>3, CountedKept
<1> QED BY <1>1, <1>6, <1>7, <1>8

LEMMA ModePushAppliesKeepsCounted ==
    ASSUME IInv, Counted, ModePushApplies
    PROVE  Counted'
<1>1. /\ modePushes # <<>> /\ modePushes' = Tail(modePushes)
      /\ ApplyPush("mode", Head(modePushes))
      /\ clock' = clock /\ UNCHANGED commandVars
  BY DEF ModePushApplies, purifierVars
<1>2. modePushes \in Seq(Stamped) /\ clock \in Nat /\ push.count \in Nat
  BY DEF IInv, Shapes, Revisions
<1>3. /\ Len(modePushes) \in Nat \ {0} /\ Head(modePushes) = modePushes[1]
      /\ Head(modePushes) \in Stamped /\ Len(modePushes') = Len(modePushes) - 1
      /\ \A i \in 1..(Len(modePushes) - 1) : modePushes'[i] = modePushes[i + 1]
  BY <1>1, <1>2, TailIndex
<1>4. \A i \in 1..Len(modePushes) : modePushes[i].at <= clock
  BY DEF Counted
<1>5. /\ Head(modePushes).at <= clock
      /\ \A i \in 1..Len(modePushes') : modePushes'[i].at <= clock
  BY <1>3, <1>4
<1>6. clock' \in Nat /\ clock <= clock' /\ Head(modePushes).at <= clock'
  BY <1>1, <1>2, <1>5
<1>7. /\ push'.count = push.count + 1 /\ push'.mode <= push'.count /\ lastMode'.at <= clock'
  BY <1>1, <1>3, <1>6, ApplyPushEffect
<1>8. push'.count \in Nat /\ push.count <= push'.count
  BY <1>2, <1>7
<1>9. /\ job' = job /\ commandRevision' = commandRevision
      /\ publishedRevision' = publishedRevision
      /\ commandRevision \in Nat /\ publishedRevision \in 0..commandRevision
      /\ commandRevision <= commandRevision
  BY <1>1 DEF commandVars, Counted
<1> QED BY <1>1, <1>5, <1>6, <1>7, <1>8, <1>9, CountedKept

LEMMA CallKeepsCounted ==
    ASSUME IInv, Counted, NEW c \in Commands, NEW r, Call(c, r)
    PROVE  Counted'
<1>1. /\ \A d \in Commands : d # c => job'[d] = job[d]
      /\ job'[c].since = Snapshot(commandRevision + 1,
                             IF r.kind = "mode" THEN {"power", "mode"} ELSE {r.kind})
      /\ commandRevision' = commandRevision + 1
      /\ UNCHANGED <<purifierVars, stateVars, publishedRevision, pushVars>>
  BY CallJobs
<1>2. /\ clock' = clock /\ push' = push /\ modePushes' = modePushes /\ lastMode' = lastMode
      /\ publishedRevision' = publishedRevision
  BY <1>1 DEF purifierVars, stateVars, pushVars
<1>3. /\ clock \in Nat /\ push \in Revisions /\ push.count \in Nat /\ push.mode \in Nat
      /\ push.power \in 0..push.count /\ push.light \in 0..push.count
      /\ push.mode \in 0..push.count
      /\ commandRevision \in Nat /\ publishedRevision \in 0..commandRevision
  BY DEF IInv, Shapes, Counted, Revisions
<1>4. job'[c].since \in [command : 0..commandRevision', power : 0..push.count,
                         mode : 0..push.count, light : 0..push.count]
  <2> DEFINE n == commandRevision + 1
  <2>1. n \in 0..n /\ 0 \in 0..push.count
    BY <1>3
  <2> HIDE DEF n
  <2>2. \A G : Snapshot(n, G) \in [command : 0..n, power : 0..push.count,
                                   mode : 0..push.count, light : 0..push.count]
    BY <1>3, <2>1 DEF Snapshot
  <2> QED BY <1>1, <2>2 DEF n
<1>5. /\ commandRevision' \in Nat /\ commandRevision <= commandRevision'
      /\ publishedRevision' \in 0..commandRevision' /\ clock <= clock'
      /\ push.count <= push'.count
  BY <1>1, <1>2, <1>3
<1>6. /\ push'.mode <= push'.count /\ lastMode'.at <= clock'
      /\ \A i \in 1..Len(modePushes') : modePushes'[i].at <= clock'
  BY <1>2 DEF Counted
<1> QED BY <1>1, <1>2, <1>3, <1>4, <1>5, <1>6, CountedKept

\* The mode that a confirmation leaves is one that was heard of.
LEMMA ConfirmedMode ==
    ASSUME IInv, Counted, NEW c \in Commands,
           PowerConfirmed(c) \/ ModeConfirmed(c) \/ LightConfirmed(c)
    PROVE  lastMode'.at <= clock
<1>1. CommandIsNoNewer(c) /\ lastMode.at <= clock /\ data.mode = lastMode /\ clock \in Nat
      /\ data.power.at <= clock
  <2>1. data["power"] \in Stamped /\ device["power"] \in Stamped /\ clock \in Nat
    BY PublishedIsNoNewer DEF Fields, IInv, Shapes
  <2>2. data["power"].at <= device["power"].at /\ device["power"].at <= clock
    BY PublishedIsNoNewer DEF Fields, Observed
  <2> QED BY <2>1, <2>2 DEF IInv, Counted, ModeRemembered, Stamped
<1>2. ASSUME NEW f \in DOMAIN job[c].got \cap Fields
      PROVE  job[c].got[f].at <= clock
  <2>1. job[c].got[f] \in Stamped /\ job[c].got[f].at <= device[f].at
    BY <1>1 DEF CommandIsNoNewer
  <2>2. device[f] \in Stamped /\ device[f].at <= clock
    BY PublishedIsNoNewer
  <2> QED BY <1>1, <2>1, <2>2 DEF Stamped
<1>3. CASE PowerConfirmed(c)
  <2> DEFINE power == IF Since(c, "power") THEN data.power ELSE job[c].got.power
  <2>1. "power" \in DOMAIN job[c].got
    BY <1>1, <1>3 DEF CommandIsNoNewer, PowerConfirmed, Confirmed, IInv
  <2>2. power.at <= clock
    BY <1>1, <1>2, <2>1 DEF Fields
  <2>3. lastMode' = WithoutMode(power, lastMode)
    BY <1>3 DEF PowerConfirmed
  <2> HIDE DEF power
  <2> QED BY <1>1, <2>2, <2>3 DEF WithoutMode, Off, Value
<1>4. CASE ModeConfirmed(c)
  <2>1. lastMode' = IF "mode" \in {f \in DOMAIN job[c].got : ~Since(c, f)}
                    THEN job[c].got.mode ELSE data.mode
    BY <1>4 DEF ModeConfirmed
  <2> QED BY <1>1, <1>2, <2>1 DEF Fields
<1>5. CASE LightConfirmed(c)
  <2>1. lastMode' = lastMode
    BY <1>5 DEF LightConfirmed
  <2> QED BY <1>1, <2>1
<1> QED BY <1>3, <1>4, <1>5

LEMMA ConfirmationPublishes ==
    ASSUME NEW c, PowerConfirmed(c) \/ ModeConfirmed(c) \/ LightConfirmed(c)
    PROVE  /\ publishedRevision' = job[c].since.command
           /\ UNCHANGED <<plan, changes, device, clock, commandRevision, pushVars, shutdown>>
BY DEF PowerConfirmed, ModeConfirmed, LightConfirmed, beyondCommands, purifierVars

LEMMA CommandStepSince ==
    ASSUME IInv, NEW c \in Commands, CommandStep(c)
    PROVE  \A d \in Commands : job'[d].since \in {job[d].since, NoSnapshot}
<1>1. CASE Decide(c) \/ ExchangeBegins(c) \/ Executes(c) \/ LightGoesOn(c)
  BY <1>1, DecideJobs, ExchangeBeginsJobs, ExecutesJobs, LightGoesOnJobs
<1>2. CASE CommandOver(c)
  BY <1>2, OverJobs
<1> QED BY <1>1, <1>2, ConfirmationEnds DEF CommandStep, CommandFails

LEMMA CommandStepKeepsCounted ==
    ASSUME IInv, Counted, NEW c \in Commands, CommandStep(c)
    PROVE  Counted'
<1>1. /\ push' = push /\ modePushes' = modePushes /\ commandRevision' = commandRevision
      /\ clock' \in {clock, clock + 1}
  <2>1. CASE Decide(c) \/ ExchangeBegins(c) \/ Executes(c)
    BY <2>1 DEF Decide, ExchangeBegins, Executes, beyondCommands, pushVars
  <2>2. CASE CommandFails(c)
    BY <2>2 DEF CommandFails, pushVars, purifierVars
  <2>3. CASE PowerConfirmed(c) \/ ModeConfirmed(c) \/ LightConfirmed(c)
    BY <2>3, ConfirmationPublishes DEF pushVars
  <2> QED BY <2>1, <2>2, <2>3 DEF CommandStep
<1>2. /\ clock \in Nat /\ push.count \in Nat /\ commandRevision \in Nat
      /\ publishedRevision \in 0..commandRevision
      /\ job[c].since.command \in 0..commandRevision
      /\ push.mode <= push.count
      /\ \A i \in 1..Len(modePushes) : modePushes[i].at <= clock
      /\ modePushes \in Seq(Stamped) /\ \A i \in 1..Len(modePushes) : modePushes[i] \in Stamped
      /\ lastMode \in Stamped /\ lastMode.at <= clock
  BY DEF IInv, Shapes, Counted, Revisions
<1>3. clock' \in Nat /\ clock <= clock' /\ push.count <= push.count
      /\ commandRevision <= commandRevision
  BY <1>1, <1>2
<1>4. publishedRevision' \in 0..commandRevision /\ lastMode'.at <= clock'
  <2>1. CASE Decide(c) \/ ExchangeBegins(c) \/ Executes(c) \/ CommandFails(c)
    <3>1. publishedRevision' = publishedRevision /\ lastMode' = lastMode
      BY <2>1 DEF Decide, ExchangeBegins, Executes, CommandFails, stateVars
    <3> QED BY <1>2, <1>3, <3>1 DEF Stamped
  <2>2. CASE PowerConfirmed(c) \/ ModeConfirmed(c) \/ LightConfirmed(c)
    <3>1. publishedRevision' = job[c].since.command /\ clock' = clock
      BY <2>2, ConfirmationPublishes
    <3>2. lastMode'.at <= clock
      BY <2>2, ConfirmedMode
    <3> QED BY <1>2, <3>1, <3>2
  <2> QED BY <2>1, <2>2 DEF CommandStep
<1>5. \A i \in 1..Len(modePushes) : modePushes[i].at <= clock'
  BY <1>2, <1>3 DEF Stamped
<1>6. \A d \in Commands :
        job'[d].since \in
           {job[d].since} \cup [command : 0..commandRevision, power : 0..push.count,
                                mode : 0..push.count, light : 0..push.count]
  <2>1. NoSnapshot \in [command : 0..commandRevision, power : 0..push.count,
                        mode : 0..push.count, light : 0..push.count]
    BY <1>2 DEF NoSnapshot
  <2> QED BY <2>1, CommandStepSince
<1> QED BY <1>1, <1>2, <1>3, <1>4, <1>5, <1>6, CountedKept

LEMMA CountedIsKept ==
    ASSUME IInv, Counted, [Next]_vars
    PROVE  Counted'
<1>1. CASE \E f \in Fields : Change(f)
  BY <1>1, ChangeKeepsCounted
<1>2. CASE ModePushApplies
  BY <1>2, ModePushAppliesKeepsCounted
<1>3. CASE \E c \in Commands : CommandStep(c)
  BY <1>3, CommandStepKeepsCounted
<1>4. CASE \E c \in Commands : \E r \in plan.asks[c] : Call(c, r)
  BY <1>4, CallKeepsCounted
<1>5. CASE PollStarts \/ RefreshDue \/ PollStep \/ DisablePush \/ Shutdown \/ Over
           \/ UNCHANGED vars
  <2>1. /\ UNCHANGED <<commandRevision, publishedRevision, job, push, clock, lastMode>>
        /\ modePushes' \in {modePushes, <<>>}
    BY <1>5
    DEF PollStarts, RefreshDue, PollStep, PollBegins, PollReplayed, PollEnds, PollFails,
        PollCleanedUp, PollReadsCore, PollReadsLight, DisablePush, Shutdown, Over, vars,
        beyondPolls, commandVars, pushVars, purifierVars, stateVars
  <2>2. \A i \in 1..Len(modePushes') : modePushes'[i].at <= clock
    <3>1. CASE modePushes' = <<>>
      <4>1. Len(modePushes') = 0
        BY <3>1
      <4> QED BY <4>1
    <3>2. CASE modePushes' = modePushes
      BY <3>2 DEF Counted
    <3> QED BY <2>1, <3>1, <3>2
  <2> QED BY <2>1, <2>2 DEF Counted
<1> QED BY <1>1, <1>2, <1>3, <1>4, <1>5 DEF Next

------------------------------------------------------------------------------
\* What was applied and what was published, in time

LEMMA LaterIs ==
    ASSUME NEW m \in Nat, NEW n \in Nat
    PROVE  Later(m, n) \in {m, n} /\ m <= Later(m, n) /\ n <= Later(m, n)
BY DEF Later

LEMMA PushRecorded ==
    ASSUME IInv, History, NEW g \in {"power", "mode", "lamp"}, NEW value \in Stamped,
           ApplyPush(g, value), clock' \in Nat, clock <= clock', value.at <= clock'
    PROVE  /\ pushed' \in [Fields -> Nat] /\ confirmed' = confirmed
           /\ \A f \in Fields : /\ pushed'[f] = IF f = g THEN Later(pushed[f], value.at)
                                                ELSE pushed[f]
                                /\ pushed'[f] <= clock' /\ confirmed'[f] <= clock'
<1>1. /\ pushed' = [pushed EXCEPT ![g] = Later(pushed[g], value.at)]
      /\ confirmed' = confirmed
  BY DEF ApplyPush
<1>2. /\ pushed \in [Fields -> Nat] /\ confirmed \in [Fields -> Nat] /\ clock \in Nat
      /\ value.at \in Nat /\ g \in Fields
      /\ \A f \in Fields : pushed[f] <= clock /\ confirmed[f] <= clock
  BY DEF History, IInv, Shapes, Stamped, Fields
<1>3. Later(pushed[g], value.at) \in {pushed[g], value.at}
  BY <1>2, LaterIs
<1>4. \A f \in Fields : pushed'[f] = IF f = g THEN Later(pushed[f], value.at) ELSE pushed[f]
  BY <1>1, <1>2
<1>5. pushed' \in [Fields -> Nat]
  BY <1>1, <1>2, <1>3
<1>6. \A f \in Fields : pushed'[f] <= clock' /\ confirmed'[f] <= clock'
  <2> SUFFICES ASSUME NEW f \in Fields PROVE pushed'[f] <= clock' /\ confirmed'[f] <= clock'
    OBVIOUS
  <2>1. /\ pushed[f] \in Nat /\ confirmed[f] \in Nat
        /\ pushed[f] <= clock /\ confirmed[f] <= clock
    BY <1>2
  <2>2. pushed'[f] \in {pushed[f], value.at}
    BY <1>3, <1>4
  <2> QED BY <1>1, <1>2, <2>1, <2>2
<1> QED BY <1>1, <1>4, <1>5, <1>6

\* Which answers a confirmation records, and that they are of the past.
LEMMA ConfirmationRecorded ==
    ASSUME IInv, History, NEW c \in Commands,
           NEW fields \in SUBSET (DOMAIN job[c].got \cap Fields),
           Confirm(fields, job[c].got)
    PROVE  /\ confirmed' \in [Fields -> Nat] /\ pushed' = pushed
           /\ \A f \in Fields :
                /\ confirmed'[f] = IF f \in fields THEN Later(confirmed[f], job[c].got[f].at)
                                   ELSE confirmed[f]
                /\ confirmed'[f] <= clock
<1> DEFINE new(f) == IF f \in fields THEN Later(confirmed[f], job[c].got[f].at)
                     ELSE confirmed[f]
<1>1. confirmed' = [f \in Fields |-> new(f)] /\ pushed' = pushed
  BY DEF Confirm
<1>2. /\ confirmed \in [Fields -> Nat] /\ clock \in Nat
      /\ \A f \in Fields : confirmed[f] <= clock
  BY DEF History, IInv, Shapes
<1>3. ASSUME NEW f \in Fields
      PROVE  new(f) \in Nat /\ new(f) <= clock
  <2>1. CASE f \in fields
    <3>1. job[c].got[f] \in Stamped /\ job[c].got[f].at <= device[f].at
      BY <2>1 DEF IInv, CommandIsNoNewer
    <3>2. device[f].at \in Nat /\ device[f].at <= clock
      BY PublishedIsNoNewer
    <3>3. job[c].got[f].at \in Nat /\ job[c].got[f].at <= clock
      BY <1>2, <3>1, <3>2 DEF Stamped
    <3>4. Later(confirmed[f], job[c].got[f].at) \in {confirmed[f], job[c].got[f].at}
      BY <1>2, <3>3, LaterIs
    <3> QED BY <1>2, <2>1, <3>3, <3>4
  <2>2. CASE f \notin fields
    BY <1>2, <2>2
  <2> QED BY <2>1, <2>2
<1> QED BY <1>1, <1>3

LEMMA Records ==
    ASSUME IInv, NEW c \in Commands, Words(c),
           PowerConfirmed(c) \/ ModeConfirmed(c) \/ LightConfirmed(c)
    PROVE  \E fields \in SUBSET (DOMAIN job[c].got \cap Fields) : Confirm(fields, job[c].got)
<1>1. /\ job[c].stage = "exchange" /\ job[c].todo = <<>> /\ <<"power">> # <<>>
      /\ DOMAIN job[c].got \subseteq Answered(job[c].request.kind)
      /\ CommandIsNoNewer(c) /\ job[c].request \in Requests
  BY ConfirmationEnds, RequestOf DEF Confirmed, Words, IInv
<1>2. CASE PowerConfirmed(c)
  <2>1. job[c].request.kind = "power"
    BY <1>2 DEF PowerConfirmed
  <2>2. "power" \in DOMAIN job[c].got /\ "power" \in Fields
    BY <1>1, <2>1 DEF CommandIsNoNewer, Fields
  <2> DEFINE fields == IF Since(c, "power") THEN {} ELSE {"power"}
  <2>3. Confirm(fields, job[c].got) /\ fields \in SUBSET (DOMAIN job[c].got \cap Fields)
    BY <1>2, <2>2 DEF PowerConfirmed
  <2> QED BY <2>3
<1>3. CASE ModeConfirmed(c)
  <2>1. job[c].request.kind = "mode"
    BY <1>3 DEF ModeConfirmed
  <2>2. DOMAIN job[c].got \subseteq Fields
    BY <1>1, <2>1 DEF Answered, Fields
  <2> DEFINE fields == {f \in DOMAIN job[c].got : ~Since(c, f)}
  <2>3. Confirm(fields, job[c].got) /\ fields \in SUBSET (DOMAIN job[c].got \cap Fields)
    BY <1>3, <2>2 DEF ModeConfirmed
  <2> QED BY <2>3
<1>4. CASE LightConfirmed(c)
  <2>1. job[c].request.kind = "light"
    BY <1>4 DEF LightConfirmed
  <2>2. DOMAIN job[c].got \subseteq Fields
    BY <1>1, <2>1 DEF Answered, Fields, Lights
  <2> DEFINE fields == IF Since(c, "light") THEN {} ELSE DOMAIN job[c].got
  <2>3. Confirm(fields, job[c].got) /\ fields \in SUBSET (DOMAIN job[c].got \cap Fields)
    BY <1>4, <2>2 DEF LightConfirmed
  <2> QED BY <2>3
<1> QED BY <1>2, <1>3, <1>4

LEMMA HistoryStands ==
    ASSUME IInv, History, UNCHANGED <<pushed, confirmed>>, clock' \in Nat, clock <= clock',
           modePushes' \in {modePushes, <<>>}
    PROVE  History'
<1>1. \A f \in Fields : pushed'[f] <= clock' /\ confirmed'[f] <= clock'
  <2> SUFFICES ASSUME NEW f \in Fields PROVE pushed'[f] <= clock' /\ confirmed'[f] <= clock'
    OBVIOUS
  <2>1. /\ pushed[f] \in Nat /\ confirmed[f] \in Nat /\ clock \in Nat
        /\ pushed[f] <= clock /\ confirmed[f] <= clock
    BY DEF History, IInv, Shapes
  <2> QED BY <2>1
<1>2. CASE modePushes' = modePushes
  BY <1>1, <1>2 DEF History
<1>3. CASE modePushes' = <<>>
  <2>1. Len(modePushes') = 0
    BY <1>3
  <2> QED BY <1>1, <2>1 DEF History
<1> QED BY <1>2, <1>3

LEMMA ChangeKeepsHistory ==
    ASSUME IInv, Counted, History, NEW f \in Fields, Change(f)
    PROVE  History'
<1> DEFINE is == CASE device[f].is = "on" -> "off" [] device[f].is = "off" -> "on"
                   [] OTHER -> "set"
           value == Value(is, clock + 1)
<1>1. /\ clock' = clock + 1
      /\ \/ UNCHANGED <<push, modePushes, stateVars>>
         \/ f # "color" /\ Pushed(f, value)
  BY DEF Change
<1>2. value \in Stamped /\ value.at = clock + 1 /\ clock \in Nat
  BY DEF IInv, Shapes, Value, Stamped
<1> HIDE DEF value
<1>3. clock' \in Nat /\ clock <= clock' /\ value.at <= clock' /\ value.at \in Nat
  BY <1>1, <1>2
<1>4. CASE UNCHANGED <<modePushes, stateVars>>
  BY <1>3, <1>4, HistoryStands DEF stateVars
<1>5. CASE f = "mode" /\ modePushes' = Append(modePushes, value) /\ UNCHANGED stateVars
  <2>1. /\ Len(modePushes') = Len(modePushes) + 1 /\ Len(modePushes) \in Nat
        /\ \A i \in 1..Len(modePushes) : modePushes'[i] = modePushes[i]
        /\ modePushes'[Len(modePushes) + 1] = value
    BY <1>2, <1>5, AppendIndex, LenProperties DEF IInv, Shapes
  <2>2. /\ \A i \in 1..Len(modePushes) : /\ modePushes[i].at <= clock
                                         /\ modePushes[i].at \in Nat
        /\ pushed' = pushed /\ confirmed' = confirmed /\ "mode" \in Fields
    <3>1. modePushes \in Seq(Stamped)
      BY DEF IInv, Shapes
    <3>2. \A i \in 1..Len(modePushes) : modePushes[i] \in Stamped
      BY <3>1
    <3>3. \A v \in Stamped : v.at \in Nat
      BY DEF Stamped
    <3> QED BY <1>5, <3>2, <3>3 DEF Counted, stateVars, Fields
  <2>3. pushed.mode \in Nat /\ pushed.mode <= clock
    BY <2>2 DEF History
  <2>4. ASSUME NEW i \in 1..Len(modePushes')
        PROVE  /\ pushed'.mode <= modePushes'[i].at
               /\ \A k \in 1..Len(modePushes') : i < k => modePushes'[i].at <= modePushes'[k].at
    <3>1. CASE i = Len(modePushes) + 1
      BY <1>2, <2>1, <2>2, <2>3, <3>1
    <3>2. CASE i \in 1..Len(modePushes)
      <4>1. pushed'.mode <= modePushes'[i].at /\ modePushes'[i].at <= value.at
        BY <1>2, <2>1, <2>2, <3>2 DEF History
      <4>2. ASSUME NEW k \in 1..Len(modePushes), i < k
            PROVE  modePushes'[i].at <= modePushes'[k].at
        BY <2>1, <3>2, <4>2 DEF History
      <4> QED BY <2>1, <4>1, <4>2
    <3> QED BY <2>1, <3>1, <3>2
  <2>5. \A g \in Fields : pushed'[g] <= clock' /\ confirmed'[g] <= clock'
    <3> SUFFICES ASSUME NEW g \in Fields PROVE pushed'[g] <= clock' /\ confirmed'[g] <= clock'
      OBVIOUS
    <3>1. /\ pushed[g] \in Nat /\ confirmed[g] \in Nat
          /\ pushed[g] <= clock /\ confirmed[g] <= clock
      BY DEF History
    <3> QED BY <1>2, <1>3, <2>2, <3>1
  <2> QED BY <2>2, <2>4, <2>5 DEF History
<1>6. CASE f \in {"power", "lamp"} /\ ApplyPush(f, value) /\ modePushes' = modePushes
  <2>1. /\ pushed' \in [Fields -> Nat] /\ confirmed' = confirmed
        /\ \A g \in Fields : /\ pushed'[g] = IF g = f THEN Later(pushed[g], value.at)
                                             ELSE pushed[g]
                             /\ pushed'[g] <= clock' /\ confirmed'[g] <= clock'
    BY <1>2, <1>3, <1>6, PushRecorded
  <2>2. pushed'["mode"] = pushed["mode"]
    BY <1>6, <2>1 DEF Fields
  <2> QED BY <1>6, <2>1, <2>2 DEF History
<1> QED BY <1>1, <1>4, <1>5, <1>6 DEF Pushed, Fields

LEMMA ModePushKeepsHistory ==
    ASSUME IInv, Counted, History, ModePushApplies
    PROVE  /\ History'
           /\ pushed'.mode = Head(modePushes).at
           /\ Head(modePushes) \in Stamped /\ Head(modePushes).at <= clock
<1>1. /\ modePushes # <<>> /\ modePushes' = Tail(modePushes) /\ clock' = clock
      /\ ApplyPush("mode", Head(modePushes))
  BY DEF ModePushApplies, purifierVars
<1>2. modePushes \in Seq(Stamped) /\ clock \in Nat
  BY DEF IInv, Shapes
<1>3. /\ Len(modePushes) \in Nat \ {0} /\ Head(modePushes) = modePushes[1]
      /\ Head(modePushes) \in Stamped /\ Len(modePushes') = Len(modePushes) - 1
      /\ \A i \in 1..(Len(modePushes) - 1) : modePushes'[i] = modePushes[i + 1]
  BY <1>1, <1>2, TailIndex
<1>4. Head(modePushes).at <= clock /\ Head(modePushes).at \in Nat
  BY <1>3 DEF Counted, Stamped
<1>5. /\ pushed' \in [Fields -> Nat] /\ confirmed' = confirmed
      /\ \A f \in Fields :
           /\ pushed'[f] = IF f = "mode" THEN Later(pushed[f], Head(modePushes).at)
                           ELSE pushed[f]
           /\ pushed'[f] <= clock' /\ confirmed'[f] <= clock'
  BY <1>1, <1>2, <1>3, <1>4, PushRecorded
<1>6. pushed.mode <= Head(modePushes).at /\ pushed.mode \in Nat /\ "mode" \in Fields
  BY <1>3 DEF History, Fields
<1>7. pushed'.mode = Head(modePushes).at
  BY <1>4, <1>5, <1>6 DEF Later
<1>8. ASSUME NEW i \in 1..Len(modePushes')
      PROVE  /\ pushed'.mode <= modePushes'[i].at
             /\ \A k \in 1..Len(modePushes') : i < k => modePushes'[i].at <= modePushes'[k].at
  <2>1. /\ i + 1 \in 1..Len(modePushes) /\ 1 < i + 1 /\ 1 \in 1..Len(modePushes)
        /\ modePushes'[i] = modePushes[i + 1]
    BY <1>3
  <2>2. pushed'.mode <= modePushes'[i].at
    BY <1>3, <1>7, <2>1 DEF History
  <2>3. ASSUME NEW k \in 1..Len(modePushes'), i < k
        PROVE  modePushes'[i].at <= modePushes'[k].at
    <3>1. k + 1 \in 1..Len(modePushes) /\ i + 1 < k + 1 /\ modePushes'[k] = modePushes[k + 1]
      BY <1>3, <2>3
    <3> QED BY <2>1, <3>1 DEF History
  <2> QED BY <2>2, <2>3
<1>9. History'
  BY <1>5, <1>8 DEF History
<1> QED BY <1>3, <1>4, <1>7, <1>9

LEMMA HistoryIsKept ==
    ASSUME JInv, [Next]_vars
    PROVE  History'
<1> USE DEF JInv
<1>1. clock \in Nat /\ clock <= clock
  BY DEF IInv, Shapes
<1>2. CASE \E f \in Fields : Change(f)
  BY <1>2, ChangeKeepsHistory
<1>3. CASE ModePushApplies
  BY <1>3, ModePushKeepsHistory
<1>4. ASSUME NEW c \in Commands, CommandStep(c)
      PROVE  History'
  <2>1. CASE Decide(c) \/ ExchangeBegins(c) \/ Executes(c) \/ CommandFails(c)
    <3>1. /\ clock' \in {clock, clock + 1} /\ modePushes' = modePushes
          /\ UNCHANGED <<pushed, confirmed>>
      BY <2>1 DEF Decide, ExchangeBegins, Executes, CommandFails, beyondCommands, pushVars,
                  stateVars, purifierVars
    <3>2. clock' \in Nat /\ clock <= clock'
      BY <1>1, <3>1
    <3> QED BY <3>1, <3>2, HistoryStands
  <2>2. CASE PowerConfirmed(c) \/ ModeConfirmed(c) \/ LightConfirmed(c)
    <3>1. PICK fields \in SUBSET (DOMAIN job[c].got \cap Fields) : Confirm(fields, job[c].got)
      BY <2>2, Records
    <3>2. /\ confirmed' \in [Fields -> Nat] /\ pushed' = pushed
          /\ \A f \in Fields : confirmed'[f] <= clock
      BY <3>1, ConfirmationRecorded
    <3>3. clock' = clock /\ modePushes' = modePushes
      BY <2>2, ConfirmationPublishes DEF pushVars
    <3> QED BY <3>2, <3>3 DEF History
  <2> QED BY <1>4, <2>1, <2>2 DEF CommandStep
<1>5. ASSUME NEW c \in Commands, NEW r \in plan.asks[c], Call(c, r)
      PROVE  History'
  <2>1. UNCHANGED <<purifierVars, stateVars, pushVars>>
    BY <1>5, CallJobs
  <2> QED BY <1>1, <2>1, HistoryStands DEF purifierVars, stateVars, pushVars
<1>6. CASE PollStarts \/ RefreshDue \/ PollStep \/ DisablePush \/ Shutdown \/ Over
           \/ UNCHANGED vars
  <2>1. /\ UNCHANGED <<pushed, confirmed, clock>>
        /\ modePushes' \in {modePushes, <<>>}
    BY <1>6
    DEF PollStarts, RefreshDue, PollStep, PollBegins, PollReplayed, PollEnds, PollFails,
        PollCleanedUp, PollReadsCore, PollReadsLight, DisablePush, Shutdown, Over, vars,
        beyondPolls, pushVars, purifierVars, stateVars
  <2> QED BY <1>1, <2>1, HistoryStands
<1> QED BY <1>2, <1>3, <1>4, <1>5, <1>6 DEF Next

------------------------------------------------------------------------------
\* What is published is the newest

\* Nothing that a command relies on changed.
LEMMA NewestStands ==
    ASSUME IInv, History, Newest, UNCHANGED <<pushed, confirmed, push>>,
           \A f \in Observed : data'[f].at \in Nat /\ data'[f].at >= data[f].at,
           data'.mode = data.mode,
           \A d \in Commands : \/ job'[d].stage \notin {"waiting", "exchange"}
                               \/ job'[d] = job[d]
                               \/ FoundIsNewest(d)' /\ AnsweredIsNewest(d)'
    PROVE  Newest'
<1>1. /\ \A f \in Observed : data[f].at \in Nat /\ pushed[f] \in Nat /\ confirmed[f] \in Nat
      /\ Fields \ {"mode"} = Observed
  BY PublishedIsNoNewer DEF History, Observed, Fields
<1>2. NewestWins'
  <2>1. \A f \in Observed : data'[f].at >= pushed[f] /\ data'[f].at >= confirmed[f]
    <3> SUFFICES ASSUME NEW f \in Observed
                 PROVE  data'[f].at >= pushed[f] /\ data'[f].at >= confirmed[f]
      OBVIOUS
    <3>1. data[f].at >= pushed[f] /\ data[f].at >= confirmed[f]
      BY <1>1 DEF Newest, NewestWins
    <3> QED BY <1>1, <3>1
  <2> QED BY <1>1, <2>1 DEF Newest, NewestWins
<1>3. ASSUME NEW d \in Commands PROVE FoundIsNewest(d)' /\ AnsweredIsNewest(d)'
  BY DEF Newest, FoundIsNewest, AnsweredIsNewest, Since
<1> QED BY <1>2, <1>3 DEF Newest

\* A push is the newest of its field, and every command under way knows of it by
\* its revision.
LEMMA PushIsNewest ==
    ASSUME IInv, Counted, History, Newest, NEW g \in {"power", "mode", "lamp"},
           NEW value \in Stamped, ApplyPush(g, value),
           clock' \in Nat, clock <= clock', value.at <= clock', job' = job,
           \A c \in Commands : Words(c),
           pushed'[g] = value.at, g # "mode" => value.at > clock
    PROVE  Newest'
<1>1. /\ push.count \in Nat /\ push'.count = push.count + 1
      /\ push'.power = IF g = "power" THEN push.count + 1 ELSE push.power
      /\ push'.mode = IF g = "mode" THEN push.count + 1 ELSE push.mode
      /\ push'.light = IF g = "lamp" THEN push.count + 1 ELSE push.light
      /\ \A f \in Observed : data'[f] = IF f = g THEN value ELSE data[f]
      /\ data'.mode = data.mode \/ data'.mode.is = "none" \/ g = "mode"
      /\ g = "mode" => data'.mode = value
  BY ApplyPushEffect
<1>2. /\ \A f \in Fields : pushed'[f] = IF f = g THEN value.at ELSE pushed[f]
      /\ confirmed' = confirmed /\ value.at \in Nat /\ clock \in Nat
      /\ \A f \in Fields : confirmed[f] \in Nat /\ confirmed[f] <= clock
  BY PushRecorded DEF History, Stamped, IInv, Shapes
<1>3. Fields \ {"mode"} = Observed /\ Observed \subseteq Fields /\ "mode" \in Fields
  BY DEF Fields, Observed
<1>4. NewestWins'
  <2>1. ASSUME NEW f \in Observed
        PROVE  data'[f].at >= pushed'[f] /\ data'[f].at >= confirmed'[f]
    <3>1. CASE f = g
      <4>1. /\ data'[f].at = value.at /\ pushed'[f] = value.at /\ value.at > clock
            /\ confirmed'[f] = confirmed[f] /\ confirmed[f] <= clock /\ confirmed[f] \in Nat
        BY <1>1, <1>2, <1>3, <3>1
      <4> QED BY <1>2, <4>1
    <3>2. CASE f # g
      BY <1>1, <1>2, <1>3, <3>2 DEF Newest, NewestWins
    <3> QED BY <3>1, <3>2
  <2>2. data'.mode.is = "set" =>
          /\ data'.mode.at >= pushed'.mode
          /\ data'.mode.at >= confirmed'.mode \/ data'.mode.at = pushed'.mode
    <3>1. CASE g = "mode"
      BY <1>1, <1>2, <1>3, <3>1
    <3>2. CASE g # "mode"
      BY <1>1, <1>2, <1>3, <3>2 DEF Newest, NewestWins
    <3> QED BY <3>1, <3>2
  <2> QED BY <1>3, <2>1, <2>2 DEF NewestWins
<1>5. ASSUME NEW d \in Commands PROVE FoundIsNewest(d)' /\ AnsweredIsNewest(d)'
  <2>1. /\ job[d].since.power \in 0..push.count /\ job[d].since.mode \in 0..push.count
        /\ job[d].since.light \in 0..push.count
    BY DEF Counted
  <2>2. /\ g = "power" => Since(d, "power")'
        /\ g = "mode" => Since(d, "mode")'
        /\ g = "lamp" => Since(d, "light")'
    BY <1>1, <2>1 DEF Since
  <2>3. /\ g # "power" => push'["power"] = push["power"] /\ pushed'["power"] = pushed["power"]
        /\ g # "mode" => push'["mode"] = push["mode"] /\ pushed'["mode"] = pushed["mode"]
        /\ g # "lamp" => /\ push'["light"] = push["light"]
                         /\ \A f \in Lights : pushed'[f] = pushed[f]
    BY <1>1, <1>2 DEF Fields, Lights
  <2>4. /\ g # "power" => (Since(d, "power")' <=> Since(d, "power"))
        /\ g # "mode" => (Since(d, "mode")' <=> Since(d, "mode"))
        /\ g # "lamp" => (Since(d, "light")' <=> Since(d, "light"))
    BY <2>3 DEF Since
  <2>5. FoundIsNewest(d) /\ AnsweredIsNewest(d)
    BY DEF Newest
  <2>6. FoundIsNewest(d)'
    BY <1>2, <2>2, <2>3, <2>4, <2>5 DEF FoundIsNewest
  <2>7. AnsweredIsNewest(d)'
    <3> SUFFICES ASSUME job[d].stage \in {"waiting", "exchange"}, NEW f \in DOMAIN job[d].got
                 PROVE  /\ job[d].got[f].at >= confirmed[f]
                        /\ ~Since(d, Checked(f))' => job[d].got[f].at >= pushed'[f]
      BY <1>2 DEF AnsweredIsNewest
    <3>1. /\ job[d].got[f].at >= confirmed[f]
          /\ ~Since(d, Checked(f)) => job[d].got[f].at >= pushed[f]
      BY <2>5 DEF AnsweredIsNewest
    <3>2. f \in {"power", "mode"} \cup Lights
      BY RequestOf DEF Words, Answered
    <3>3. CASE f \in Lights
      BY <2>2, <2>3, <2>4, <3>1, <3>3 DEF Checked
    <3>4. CASE f \in {"power", "mode"}
      <4>1. Checked(f) = f
        BY <3>4 DEF Checked, Lights
      <4> QED BY <2>2, <2>3, <2>4, <3>1, <3>4, <4>1
    <3> QED BY <3>1, <3>2, <3>3, <3>4
  <2> QED BY <2>6, <2>7
<1> QED BY <1>4, <1>5 DEF Newest

LEMMA ChangeKeepsNewest ==
    ASSUME JInv, NEW f \in Fields, Change(f)
    PROVE  Newest'
<1> USE DEF JInv
<1> DEFINE is == CASE device[f].is = "on" -> "off" [] device[f].is = "off" -> "on"
                   [] OTHER -> "set"
           value == Value(is, clock + 1)
<1>1. /\ clock' = clock + 1 /\ UNCHANGED commandVars
      /\ \/ UNCHANGED <<push, modePushes, stateVars>>
         \/ f # "color" /\ Pushed(f, value)
  BY DEF Change
<1>2. value \in Stamped /\ value.at = clock + 1 /\ clock \in Nat
  BY DEF IInv, Shapes, Value, Stamped
<1> HIDE DEF value
<1>3. clock' \in Nat /\ clock <= clock' /\ value.at <= clock' /\ job' = job
      /\ value.at > clock /\ value.at \in Nat
  BY <1>1, <1>2 DEF commandVars
<1>4. CASE UNCHANGED <<push, stateVars>>
  <2>1. push' = push /\ data' = data /\ pushed' = pushed /\ confirmed' = confirmed
    BY <1>4 DEF stateVars
  <2>2. \A g \in Observed : data'[g].at \in Nat /\ data'[g].at >= data[g].at
    BY <2>1, PublishedIsNoNewer DEF Observed, Fields
  <2> QED BY <1>3, <2>1, <2>2, NewestStands
<1>5. CASE f \in {"power", "lamp"} /\ ApplyPush(f, value)
  <2>1. pushed'[f] = Later(pushed[f], value.at) /\ pushed[f] \in Nat /\ pushed[f] <= clock
    BY <1>2, <1>3, <1>5, PushRecorded DEF History
  <2>2. pushed'[f] = value.at
    BY <1>2, <1>3, <2>1 DEF Later
  <2> QED BY <1>2, <1>3, <1>5, <2>2, PushIsNewest
<1>6. Pushed(f, value) => \/ UNCHANGED <<push, stateVars>>
                          \/ f # "mode" /\ ApplyPush(f, value)
  BY DEF Pushed
<1> QED BY <1>1, <1>4, <1>5, <1>6 DEF Fields

LEMMA ModePushKeepsNewest ==
    ASSUME JInv, ModePushApplies
    PROVE  Newest'
<1> USE DEF JInv
<1>1. /\ ApplyPush("mode", Head(modePushes)) /\ clock' = clock /\ job' = job
      /\ clock \in Nat
  BY DEF ModePushApplies, purifierVars, commandVars, IInv, Shapes
<1> QED BY <1>1, ModePushKeepsHistory, PushIsNewest

\* A step of a command that publishes nothing.
LEMMA SilentStepKeepsNewest ==
    ASSUME IInv, History, Newest, NEW c \in Commands, Words(c), Fresh(c),
           Decide(c) \/ ExchangeBegins(c) \/ Executes(c) \/ CommandFails(c)
    PROVE  Newest'
<1>1. push' = push /\ data' = data /\ UNCHANGED <<pushed, confirmed>>
  BY DEF Decide, ExchangeBegins, Executes, CommandFails, beyondCommands, stateVars, pushVars
<1>2. \A f \in Observed : data'[f].at \in Nat /\ data'[f].at >= data[f].at
  BY <1>1, PublishedIsNoNewer DEF Observed, Fields
<1>3. FoundIsNewest(c) /\ AnsweredIsNewest(c)
  BY DEF Newest
<1>4. CASE Decide(c)
  <2>1. /\ \A d \in Commands : d # c => job'[d] = job[d]
        /\ job[c].stage = "queued" /\ job'[c].got = job[c].got
        /\ job'[c].before = data.power /\ job'[c].light = [f \in Lights |-> data[f]]
    BY <1>4, DecideJobs
  <2>2. \A f \in {"power"} \cup Lights : data[f].at >= pushed[f] /\ data[f].at >= confirmed[f]
    BY DEF Newest, NewestWins, Lights, Fields
  <2>3. FoundIsNewest(c)'
    BY <1>1, <2>1, <2>2 DEF FoundIsNewest
  <2>4. DOMAIN job'[c].got = {}
    BY <2>1 DEF Fresh
  <2>5. AnsweredIsNewest(c)'
    BY <2>4 DEF AnsweredIsNewest
  <2> QED BY <1>1, <1>2, <2>1, <2>3, <2>5, NewestStands
<1>5. CASE ExchangeBegins(c)
  <2>1. /\ \A d \in Commands : d # c => job'[d] = job[d]
        /\ job'[c].since = job[c].since /\ job[c].stage = "waiting"
        /\ job'[c].before = job[c].before /\ job'[c].light = job[c].light
        /\ job'[c].got = job[c].got
    BY <1>5, ExchangeBeginsJobs
  <2>2. FoundIsNewest(c)' /\ AnsweredIsNewest(c)'
    BY <1>1, <1>3, <2>1 DEF FoundIsNewest, AnsweredIsNewest, Since
  <2> QED BY <1>1, <1>2, <2>1, <2>2, NewestStands
<1>6. CASE Executes(c)
  <2> DEFINE request == Head(job[c].todo)
             g == IF request = "brightness" THEN "lamp" ELSE request
  <2>1. /\ \A d \in Commands : d # c => job'[d] = job[d]
        /\ job'[c].since = job[c].since /\ job[c].stage = "exchange"
        /\ job'[c].before = job[c].before /\ job'[c].light = job[c].light
        /\ DOMAIN job'[c].got = DOMAIN job[c].got \cup {g}
        /\ \A h \in DOMAIN job'[c].got :
              job'[c].got[h].at = IF h = g THEN clock + 1 ELSE job[c].got[h].at
        /\ job[c].todo # <<>>
    BY <1>6, ExecutesJobs
  <2>2. FoundIsNewest(c)'
    BY <1>1, <1>3, <2>1 DEF FoundIsNewest, Since
  <2>3. g \in Fields
    <3>1. request \in Asked(job[c].request.kind)
      BY <2>1, TailIndex DEF Words
    <3>2. g \in Answered(job[c].request.kind)
      BY <2>1, <3>1, RequestOf, AskedIsAnswered
    <3> QED BY <2>1, <3>2, RequestOf DEF Answered, Fields, Lights
  <2>4. /\ pushed[g] \in Nat /\ confirmed[g] \in Nat /\ clock \in Nat
        /\ pushed[g] <= clock /\ confirmed[g] <= clock
    BY <2>3 DEF History, IInv, Shapes
  <2> HIDE DEF g
  <2>5. AnsweredIsNewest(c)'
    <3> SUFFICES ASSUME NEW f \in DOMAIN job'[c].got
                 PROVE  /\ job'[c].got[f].at >= confirmed[f]
                        /\ ~Since(c, Checked(f)) => job'[c].got[f].at >= pushed[f]
      BY <1>1, <2>1 DEF AnsweredIsNewest, Since
    <3>1. CASE f = g
      BY <2>1, <2>4, <3>1
    <3>2. CASE f # g
      BY <1>3, <2>1, <3>2 DEF AnsweredIsNewest
    <3> QED BY <3>1, <3>2
  <2> QED BY <1>1, <1>2, <2>1, <2>2, <2>5, NewestStands
<1>7. CASE CommandFails(c)
  <2>1. CommandOver(c)
    BY <1>7 DEF CommandFails
  <2>2. job'[c].stage = "done" /\ \A d \in Commands : d # c => job'[d] = job[d]
    BY <2>1, OverJobs
  <2> QED BY <1>1, <1>2, <2>2, NewestStands
<1> QED BY <1>4, <1>5, <1>6, <1>7

\* The times of what a confirmation publishes.
LEMMA ConfirmedValues ==
    ASSUME IInv, History, Newest, NEW c \in Commands, job[c].stage = "exchange"
    PROVE  /\ \A f \in DOMAIN job[c].got \cap Fields :
                /\ job[c].got[f].at \in Nat
                /\ job[c].got[f].at >= confirmed[f]
                /\ job[c].got[f].at >= Later(confirmed[f], job[c].got[f].at)
                /\ ~Since(c, Checked(f)) => job[c].got[f].at >= pushed[f]
           /\ job[c].before.at \in Nat
           /\ \A f \in Lights : job[c].light[f].at \in Nat
           /\ \A f \in Fields : data[f].at \in Nat /\ pushed[f] \in Nat /\ confirmed[f] \in Nat
<1>1. ASSUME NEW f \in DOMAIN job[c].got \cap Fields
      PROVE  /\ job[c].got[f].at \in Nat
             /\ job[c].got[f].at >= confirmed[f]
             /\ job[c].got[f].at >= Later(confirmed[f], job[c].got[f].at)
             /\ ~Since(c, Checked(f)) => job[c].got[f].at >= pushed[f]
  <2>1. job[c].got[f].at \in Nat /\ confirmed[f] \in Nat
    BY DEF IInv, CommandIsNoNewer, Stamped, History
  <2>2. /\ job[c].got[f].at >= confirmed[f]
        /\ ~Since(c, Checked(f)) => job[c].got[f].at >= pushed[f]
    BY DEF Newest, AnsweredIsNewest
  <2> QED BY <2>1, <2>2 DEF Later
<1>2. job[c].before.at \in Nat /\ \A f \in Lights : job[c].light[f].at \in Nat
  BY DEF IInv, CommandIsNoNewer, Stamped
<1>3. \A f \in Fields : data[f].at \in Nat /\ pushed[f] \in Nat /\ confirmed[f] \in Nat
  BY PublishedIsNoNewer DEF History
<1> QED BY <1>1, <1>2, <1>3

\* After a confirmation that ends its command no command is past the lock.
LEMMA OverLeavesNobody ==
    ASSUME IInv, InLine, NEW c \in Commands, job[c].stage = "exchange", CommandOver(c)
    PROVE  \A d \in Commands : FoundIsNewest(d)' /\ AnsweredIsNewest(d)'
<1>1. ASSUME NEW d \in Commands PROVE job'[d].stage \notin {"waiting", "exchange"}
  BY HeadAlone, OverJobs
<1> QED BY <1>1 DEF FoundIsNewest, AnsweredIsNewest

LEMMA PowerConfirmedKeepsNewest ==
    ASSUME IInv, History, Newest, InLine, NEW c \in Commands, PowerConfirmed(c)
    PROVE  Newest'
<1> DEFINE since == Since(c, "power")
           power == IF since THEN data.power ELSE job[c].got.power
           fields == IF since THEN {} ELSE {"power"}
<1>1. /\ data' = [data EXCEPT !.power = power, !.mode = WithoutMode(power, data.mode)]
      /\ Confirm(fields, job[c].got)
      /\ CommandOver(c) /\ job[c].request.kind = "power"
      /\ job[c].stage = "exchange" /\ job[c].todo = <<>>
  BY DEF PowerConfirmed, Confirmed
<1>2. "power" \in DOMAIN job[c].got /\ "power" \in Fields /\ Checked("power") = "power"
  <2>1. CommandIsNoNewer(c) /\ job[c].request \in Requests /\ <<"power">> # <<>>
    BY <1>1, RequestOf DEF IInv
  <2> QED BY <1>1, <2>1 DEF CommandIsNoNewer, Fields, Checked, Lights
<1>3. /\ pushed' = pushed
      /\ \A f \in Fields :
           confirmed'[f] = IF f \in fields THEN Later(confirmed[f], job[c].got[f].at)
                           ELSE confirmed[f]
  <2>1. fields \in SUBSET (DOMAIN job[c].got \cap Fields)
    BY <1>2
  <2> HIDE DEF fields
  <2> QED BY <1>1, <2>1, ConfirmationRecorded
<1>4. /\ data \in [Fields -> Stamped] /\ NewestWins
      /\ data.power.at >= pushed.power /\ data.power.at >= confirmed.power
  BY <1>2 DEF Newest, NewestWins, IInv, Shapes
<1>5. WithoutMode(power, data.mode) = data.mode \/ WithoutMode(power, data.mode).is = "none"
  BY DEF WithoutMode, Off, Value
<1>6. power.at >= pushed.power /\ power.at >= confirmed'["power"]
  <2>1. CASE since
    BY <1>2, <1>3, <1>4, <2>1
  <2>2. CASE ~since
    BY <1>1, <1>2, <1>3, <2>2, ConfirmedValues
  <2> QED BY <2>1, <2>2
<1>7. /\ data'.power = power /\ \A f \in Lights : data'[f] = data[f]
      /\ data'.mode = data.mode \/ data'.mode.is = "none"
  BY <1>1, <1>4, <1>5 DEF Fields, Lights
<1>8. \A f \in Fields \ {"power"} : confirmed'[f] = confirmed[f]
  BY <1>3
<1> HIDE DEF power
<1>9. NewestWins'
  BY <1>3, <1>4, <1>6, <1>7, <1>8 DEF NewestWins, Fields, Lights
<1> QED BY <1>1, <1>9, OverLeavesNobody DEF Newest

LEMMA ModeConfirmedKeepsNewest ==
    ASSUME IInv, History, Newest, InLine, NEW c \in Commands, Words(c), ModeConfirmed(c)
    PROVE  Newest'
<1> DEFINE got == job[c].got
           fresh == {f \in DOMAIN got : ~Since(c, f)}
           power == IF Since(c, "power") THEN data.power
                    ELSE IF "power" \in DOMAIN got THEN got.power ELSE job[c].before
           mode == IF "mode" \in fresh THEN got.mode ELSE data.mode
<1>1. /\ data' = [data EXCEPT !.power = power, !.mode = mode]
      /\ Confirm(fresh, got) /\ CommandOver(c) /\ job[c].request.kind = "mode"
      /\ job[c].stage = "exchange"
  BY DEF ModeConfirmed, Confirmed
<1>2. /\ DOMAIN got \subseteq {"power", "mode"} /\ {"power", "mode"} \subseteq Fields
      /\ Checked("power") = "power" /\ Checked("mode") = "mode"
  BY <1>1 DEF Words, Answered, Fields, Checked, Lights
<1>3. /\ pushed' = pushed
      /\ \A f \in Fields : confirmed'[f] = IF f \in fresh THEN Later(confirmed[f], got[f].at)
                                           ELSE confirmed[f]
  BY <1>1, <1>2, ConfirmationRecorded
<1>4. /\ data \in [Fields -> Stamped] /\ NewestWins
      /\ data.power.at >= pushed.power /\ data.power.at >= confirmed.power
  BY <1>2 DEF Newest, NewestWins, IInv, Shapes
<1>5. ~Since(c, "power") => /\ job[c].before.at >= pushed.power
                            /\ job[c].before.at >= confirmed.power
  BY <1>1 DEF Newest, FoundIsNewest
<1>6. power.at >= pushed.power /\ power.at >= confirmed'["power"]
  <2>1. CASE Since(c, "power")
    BY <1>2, <1>3, <1>4, <2>1
  <2>2. CASE ~Since(c, "power") /\ "power" \in DOMAIN got
    BY <1>1, <1>2, <1>3, <2>2, ConfirmedValues
  <2>3. CASE ~Since(c, "power") /\ "power" \notin DOMAIN got
    BY <1>2, <1>3, <1>5, <2>3
  <2> QED BY <2>1, <2>2, <2>3
<1>7. mode.is = "set" =>
        /\ mode.at >= pushed.mode
        /\ mode.at >= confirmed'["mode"] \/ mode.at = pushed.mode
  <2>1. CASE "mode" \in fresh
    BY <1>1, <1>2, <1>3, <2>1, ConfirmedValues
  <2>2. CASE "mode" \notin fresh
    BY <1>2, <1>3, <1>4, <2>2 DEF NewestWins
  <2> QED BY <2>1, <2>2
<1>8. \A f \in Lights : confirmed'[f] = confirmed[f] /\ f \in Fields
  BY <1>2, <1>3 DEF Fields, Lights
<1> HIDE DEF power, mode, fresh
<1>9. data'.power = power /\ data'.mode = mode /\ \A f \in Lights : data'[f] = data[f]
  BY <1>1, <1>4 DEF Fields, Lights
<1>10. NewestWins'
  BY <1>3, <1>4, <1>6, <1>7, <1>8, <1>9 DEF NewestWins, Fields, Lights
<1> QED BY <1>1, <1>10, OverLeavesNobody DEF Newest

LEMMA LightConfirmedKeepsNewest ==
    ASSUME IInv, History, Newest, InLine, NEW c \in Commands, Words(c), LightConfirmed(c)
    PROVE  Newest'
<1> DEFINE got == job[c].got
           light == [f \in Lights |-> IF f \in DOMAIN got THEN got[f] ELSE job[c].light[f]]
           since == Since(c, "light")
           fields == IF since THEN {} ELSE DOMAIN got
<1>1. /\ data' = IF since THEN data
                 ELSE [f \in Fields |-> IF f \in Lights THEN light[f] ELSE data[f]]
      /\ Confirm(fields, got) /\ job[c].request.kind = "light"
      /\ job[c].stage = "exchange"
      /\ CommandOver(c) \/ LightGoesOn(c)
  BY ConfirmationEnds DEF LightConfirmed, Confirmed
<1>2. /\ DOMAIN got \subseteq Lights /\ Lights \subseteq Fields
      /\ \A f \in Lights : Checked(f) = "light"
      /\ "power" \in Fields \ Lights /\ "mode" \in Fields \ Lights
  BY <1>1 DEF Words, Answered, Lights, Fields, Checked
<1>3. /\ pushed' = pushed
      /\ \A f \in Fields : confirmed'[f] = IF f \in fields THEN Later(confirmed[f], got[f].at)
                                           ELSE confirmed[f]
  BY <1>1, <1>2, ConfirmationRecorded
<1>4. FoundIsNewest(c) /\ NewestWins
  BY DEF Newest
<1>5. ~since => \A f \in Lights :
                   light[f].at >= pushed[f] /\ light[f].at >= confirmed'[f]
  <2> SUFFICES ASSUME ~since, NEW f \in Lights
               PROVE  light[f].at >= pushed[f] /\ light[f].at >= confirmed'[f]
    OBVIOUS
  <2>1. CASE f \in DOMAIN got
    BY <1>1, <1>2, <1>3, <2>1, ConfirmedValues
  <2>2. CASE f \notin DOMAIN got
    <3>1. confirmed'[f] = confirmed[f] /\ light[f] = job[c].light[f]
      BY <1>2, <1>3, <2>2
    <3> QED BY <1>1, <1>4, <3>1 DEF FoundIsNewest
  <2> QED BY <2>1, <2>2
<1>6. confirmed'["power"] = confirmed["power"] /\ confirmed'["mode"] = confirmed["mode"]
  BY <1>2, <1>3
<1>7. NewestWins'
  <2>1. CASE since
    <3>1. data' = data /\ \A f \in Fields : confirmed'[f] = confirmed[f]
      BY <1>1, <1>3, <2>1
    <3> QED BY <1>2, <1>3, <1>4, <3>1 DEF NewestWins
  <2>2. CASE ~since
    <3>1. /\ \A f \in Lights : data'[f] = light[f]
          /\ data'["power"] = data["power"] /\ data'["mode"] = data["mode"]
      BY <1>1, <1>2, <2>2
    <3> QED BY <1>3, <1>4, <1>5, <1>6, <2>2, <3>1 DEF NewestWins, Fields, Lights
  <2> QED BY <2>1, <2>2
<1>8. push' = push
  BY ConfirmationPublishes DEF pushVars
<1> HIDE DEF light
<1>9. ASSUME LightGoesOn(c), NEW d \in Commands
      PROVE  FoundIsNewest(d)' /\ AnsweredIsNewest(d)'
  <2>1. CASE d # c
    <3>1. job'[d].stage \notin {"waiting", "exchange"}
      BY <1>1, <1>9, <2>1, HeadAlone, LightGoesOnJobs
    <3> QED BY <3>1 DEF FoundIsNewest, AnsweredIsNewest
  <2>2. CASE d = c
    <3>1. /\ job'[c].since = job[c].since /\ job'[c].before = job[c].before
          /\ ~since => job'[c].light = light
          /\ DOMAIN job'[c].got = {}
      BY <1>9, LightGoesOnJobs DEF light
    <3>2. Since(c, "power")' = Since(c, "power") /\ Since(c, "light")' = since
      BY <1>8, <3>1 DEF Since
    <3>3. FoundIsNewest(c)'
      BY <1>1, <1>3, <1>4, <1>5, <1>6, <3>1, <3>2 DEF FoundIsNewest
    <3> QED BY <2>2, <3>1, <3>3 DEF AnsweredIsNewest
  <2> QED BY <2>1, <2>2
<1> QED BY <1>1, <1>7, <1>9, OverLeavesNobody DEF Newest

LEMMA NewestIsKept ==
    ASSUME JInv, [Next]_vars
    PROVE  Newest'
<1> USE DEF JInv
<1>1. CASE \E f \in Fields : Change(f)
  BY <1>1, ChangeKeepsNewest
<1>2. CASE ModePushApplies
  BY <1>2, ModePushKeepsNewest
<1>3. CASE PollEnds
  <2>1. UNCHANGED <<pushed, confirmed, push, job>>
    BY <1>3 DEF PollEnds, pushVars, commandVars
  <2>2. \A f \in Observed : data'[f].at \in Nat
    BY <1>3, PollEndsKeepsInv DEF IInv, Shapes, Stamped, Observed, Fields
  <2> QED BY <1>3, <2>1, <2>2, PollGoesForward, NewestStands
<1>4. ASSUME NEW c \in Commands, CommandStep(c)
      PROVE  Newest'
  BY <1>4, SilentStepKeepsNewest, PowerConfirmedKeepsNewest, ModeConfirmedKeepsNewest,
     LightConfirmedKeepsNewest DEF CommandStep
<1>5. CASE UNCHANGED <<push, data, pushed, confirmed>> /\ \A d \in Commands :
              job'[d].stage \notin {"waiting", "exchange"} \/ job'[d] = job[d]
  BY <1>5, PublishedIsNoNewer, NewestStands DEF Observed, Fields
<1>6. ASSUME NEW c \in Commands, NEW r \in plan.asks[c], Call(c, r)
      PROVE  Newest'
  <2>1. /\ \A d \in Commands : d # c => job'[d] = job[d]
        /\ job'[c].stage = "queued" /\ UNCHANGED <<stateVars, pushVars>>
    BY <1>6, CallJobs
  <2> QED BY <1>5, <2>1 DEF stateVars, pushVars
<1>7. CASE PollStarts \/ RefreshDue \/ (PollStep /\ ~PollEnds) \/ DisablePush \/ Shutdown
           \/ Over \/ UNCHANGED vars
  <2>1. UNCHANGED <<push, data, pushed, confirmed, job>>
    BY <1>7
    DEF PollStarts, RefreshDue, PollStep, PollBegins, PollReplayed, PollFails,
        PollCleanedUp, PollReadsCore, PollReadsLight, DisablePush, Shutdown, Over, vars,
        beyondPolls, commandVars, pushVars, stateVars
  <2> QED BY <1>5, <2>1
<1> QED BY <1>1, <1>2, <1>3, <1>4, <1>6, <1>7 DEF Next, PollStep

LEMMA InitJInv == Init => JInv
<1> SUFFICES ASSUME Init PROVE JInv
  OBVIOUS
<1>1. IInv
  BY InitInv
<1>2. /\ \A c \in Commands : job[c] = NoJob
      /\ queue = <<>> /\ refresh = "none" /\ modePushes = <<>> /\ clock = 0
      /\ commandRevision = 0 /\ publishedRevision = 0
      /\ push.count = 0 /\ push.mode = 0 /\ push.power = 0 /\ push.light = 0
      /\ pushed = [f \in Fields |-> 0] /\ confirmed = [f \in Fields |-> 0]
      /\ lastMode = data.mode
  BY DEF Init
<1>3. data.mode.at = 0
  BY DEF Init, Fields, Off, Value
<1>4. Counted
  <2>1. Len(modePushes) = 0
    BY <1>2
  <2>2. \A c \in Commands : job[c].since = NoSnapshot
    BY <1>2 DEF NoJob
  <2> QED BY <1>2, <1>3, <2>1, <2>2 DEF Counted, NoSnapshot
<1>5. InLine
  <2>1. IsQueueOf(<<>>, Commands) /\ ToSet(<<>>) = {}
    BY EmptySeq DEF IsQueueOf, IsInjective, ToSet
  <2>2. \A c \in Commands : job[c].stage = "idle"
    BY <1>2 DEF NoJob
  <2> QED BY <1>2, <2>1, <2>2 DEF InLine
<1>6. Refreshes
  BY <1>2 DEF Refreshes
<1>7. \A c \in Commands : Words(c) /\ Fresh(c)
  BY <1>2 DEF Words, Fresh, NoJob
<1>8. History
  <2>1. Len(modePushes) = 0
    BY <1>2
  <2> QED BY <1>2, <2>1 DEF History
<1>9. Newest
  <2>1. \A f \in Fields : data[f].at >= 0
    BY PublishedIsNoNewer, <1>1
  <2>2. \A c \in Commands : FoundIsNewest(c) /\ AnsweredIsNewest(c)
    BY <1>2 DEF FoundIsNewest, AnsweredIsNewest, NoJob
  <2> QED BY <1>2, <2>1, <2>2 DEF Newest, NewestWins, Fields
<1> QED BY <1>1, <1>4, <1>5, <1>6, <1>7, <1>8, <1>9 DEF JInv

LEMMA JInvHolds == Spec => []JInv
<1>1. JInv /\ [Next]_vars => JInv'
  BY NextKeepsInv, CountedIsKept, LineIsKept, RefreshesAreKept, WordsAreKept,
     HistoryIsKept, NewestIsKept
  DEF JInv
<1> QED BY InitJInv, <1>1, PTL DEF Spec

------------------------------------------------------------------------------
\* NewestWins: what is published of a field is never older than the newest push of it that
\* was applied or the newest confirmation of it that was published, but for the mode of the
\* newest push, which may have waited for the manager while a command was confirmed; for any
\* number of commands, pushes and polls and every overlap of them (coordinator.py:170, 257,
\* 313, 373, 420).
THEOREM NewestIsPublished == Spec => []NewestWins
<1>1. JInv => NewestWins
  BY DEF JInv, Newest
<1> QED BY <1>1, JInvHolds, PTL

\* TypeOK: revisions stay within what was called or pushed, only the head of the line is
\* past _command_lock, a refresh that polls has its poll.
THEOREM TypesHold == Spec => []TypeOK
<1>1. JInv => TypeOK
  <2> SUFFICES ASSUME JInv PROVE TypeOK
    OBVIOUS
  <2>1. IInv /\ Counted /\ InLine /\ Refreshes
    BY DEF JInv
  <2>2. clock \in Nat /\ push \in Revisions
    BY <2>1 DEF IInv, Shapes
  <2>3. \A v \in Stamped : v.at <= clock => v \in Values
    BY <2>2 DEF Stamped, Values
  <2>4. /\ device \in [Fields -> Stamped] /\ data \in [Fields -> Stamped]
        /\ lastMode \in Stamped /\ data.mode = lastMode /\ lastMode.at <= clock
    BY <2>1 DEF IInv, Shapes, ModeRemembered, Counted
  <2>5. \A f \in Fields : device[f].at <= clock /\ data[f].at <= clock
    <3>1. ASSUME NEW f \in Observed PROVE data[f].at <= clock
      <4>1. /\ data[f].at <= device[f].at /\ device[f].at <= clock
            /\ data[f].at \in Nat /\ device[f].at \in Nat
        BY <2>1, PublishedIsNoNewer DEF Observed, Fields
      <4> QED BY <2>2, <4>1
    <3> QED BY <2>1, <2>4, <3>1, PublishedIsNoNewer DEF Observed, Fields
  <2>6. device \in [Fields -> Values] /\ data \in [Fields -> Values] /\ lastMode \in Values
    BY <2>3, <2>4, <2>5
  <2>7. push.power <= push.count /\ push.mode <= push.count /\ push.light <= push.count
    BY <2>1 DEF IInv, Shapes, Counted
  <2>8. IsInjective(queue) /\ ToSet(queue) = {c \in Commands : job[c].stage \notin {"idle", "done"}}
    BY <2>1 DEF InLine, IsQueueOf
  <2>9. modePushes # <<>> => pushEnabled
    BY <2>1 DEF IInv, DisabledIsQuiet
  <2> QED BY <2>1, <2>6, <2>7, <2>8, <2>9 DEF TypeOK, InLine, Refreshes, Counted
<1> QED BY <1>1, JInvHolds, PTL

================================================================================
